---- MODULE Spec2Model ----
(***************************************************************************)
(* Model of the Hagelslag Island forecasting script (src/main_script.py,   *)
(* with the first revision src/Untitled-1.py).                             *)
(*                                                                         *)
(* The script is a single top-to-bottom pass: it loads the tables, then    *)
(* runs the forecast chains 101-105, 106-110, 111-116 and 116-120, the     *)
(* Gini calculation and the Gini / happiness projections.  Each block of   *)
(* the script is one action here; pc is the block the script is about to   *)
(* execute.                                                                *)
(*                                                                         *)
(* Arithmetic.  The script computes in Python floats.  The forecast        *)
(* chains are modelled in exact rationals <<n, d>> (d > 0, lowest terms);  *)
(* calculate_gini is modelled both exactly (SpecGini) and with every       *)
(* operation rounded to a FloatBits-bit significand (SpecGiniFloat).  A    *)
(* raised Python exception is the value Raised.  TLC's integers are 32     *)
(* bits wide, so the loaded tables and the calibrated magnitudes (growth   *)
(* rates, policy effects) are drawn from small sets of rationals; the      *)
(* formulas, the order of the operations, the table keys (years) and the   *)
(* absent-key defaults are those of the source.                            *)
(***************************************************************************)
EXTENDS Integers, Sequences, FiniteSets, TLC

(***************************************************************************)
(* Exact rational arithmetic (Python float operators +, -, *, /).          *)
(***************************************************************************)
Abs(x) == IF x < 0 THEN -x ELSE x

RECURSIVE GCD(_, _)
GCD(a, b) == IF b = 0 THEN a ELSE GCD(b, a % b)

\* The rational n/d in lowest terms with a positive denominator.
Rat(n, d) ==
    LET g == GCD(Abs(n), Abs(d))
        s == IF d < 0 THEN -1 ELSE 1
    IN  <<(s * n) \div g, (s * d) \div g>>

\* The outcome of an expression that raised ZeroDivisionError.
Raised == <<0, 0>>

\* The outcome of a subscript whose key is absent (KeyError).
KeyError == <<1, 0>>

\* Either exception; an operation passes on the first one of its operands.
IsRaised(x) == x[2] = 0

\* The exception that ended the run.
ErrorName(x) == IF x = KeyError THEN "KeyError" ELSE "ZeroDivisionError"

RInt(n) == <<n, 1>>

Zero == RInt(0)

One == RInt(1)

RAdd(x, y) ==
    IF IsRaised(x) THEN x ELSE IF IsRaised(y) THEN y
    ELSE LET g == GCD(x[2], y[2])
         IN  Rat(x[1] * (y[2] \div g) + y[1] * (x[2] \div g), (x[2] \div g) * y[2])

RNeg(x) == IF IsRaised(x) THEN x ELSE <<-x[1], x[2]>>

RSub(x, y) == RAdd(x, RNeg(y))

RMul(x, y) ==
    IF IsRaised(x) THEN x ELSE IF IsRaised(y) THEN y
    ELSE LET g1 == GCD(Abs(x[1]), y[2])
             g2 == GCD(Abs(y[1]), x[2])
         IN  Rat((x[1] \div g1) * (y[1] \div g2), (x[2] \div g2) * (y[2] \div g1))

\* x / y that yields 0 for a zero divisor instead of raising.
RDiv_zero_for_zero_divisor(x, y) ==
    IF IsRaised(x) THEN x ELSE IF IsRaised(y) THEN y
    ELSE IF y[1] = 0 THEN <<0, 1>>
    ELSE <<x[1] * y[2] * (IF y[1] < 0 THEN -1 ELSE 1), x[2] * y[1] * (IF y[1] < 0 THEN -1 ELSE 1)>>

\* Python's x / y: ZeroDivisionError when y = 0.
RDiv(x, y) ==
    IF IsRaised(x) THEN x ELSE IF IsRaised(y) THEN y
    ELSE IF y[1] = 0 THEN Raised
    ELSE RMul(x, Rat(y[2], y[1]))

RLt(x, y) == x[1] * y[2] < y[1] * x[2]

RLe(x, y) == x[1] * y[2] <= y[1] * x[2]

(***************************************************************************)
(* Bounds of the model.                                                    *)
(***************************************************************************)
\* Longest income list handed to calculate_gini.
MaxLen == 4

\* Individual incomes (whole currency units), with net-cost (<= 0) entries.
IncomeVals == {-5, 0, 1, 2, 10, 97}

RECURSIVE SeqsUpTo(_, _)
SeqsUpTo(S, n) ==
    IF n = 0 THEN {<<>>}
    ELSE LET shorter == SeqsUpTo(S, n - 1)
         IN  shorter \cup {Append(s, x) : s \in {t \in shorter : Len(t) = n - 1}, x \in S}

(***************************************************************************)
(* Inequality analysis: calculate_gini (src/main_script.py 1203-1214).     *)
(***************************************************************************)
\* Python's sorted(): ascending, by insertion.
RECURSIVE Insert(_, _)
Insert(x, s) ==
    IF s = <<>> THEN <<x>>
    ELSE IF x <= Head(s) THEN <<x>> \o s
    ELSE <<Head(s)>> \o Insert(x, Tail(s))

RECURSIVE sorted(_)
sorted(s) == IF s = <<>> THEN <<>> ELSE Insert(Head(s), sorted(Tail(s)))

\* cumsum[-1]: the last running total, i.e. the total of the list.
RECURSIVE SeqSum(_)
SeqSum(s) == IF s = <<>> THEN 0 ELSE Head(s) + SeqSum(Tail(s))

\* np.sum(np.arange(1, n + 1) * sorted_incomes)
RECURSIVE RankSum(_, _)
RankSum(s, k) ==
    IF k = 0 THEN 0 ELSE k * s[k] + RankSum(s, k - 1)

\* The return expression of line 1214 on a list of n incomes.
GiniEstimator(s) ==
    LET n == Len(s)
    IN  RSub(RDiv(RInt(2 * RankSum(s, n)), RInt(n * SeqSum(s))),
             RDiv(RInt(n + 1), RInt(n)))

\* calculate_gini with neither early return: the estimator on whatever is left.
calculate_gini_unguarded(incomes) ==
    GiniEstimator(sorted(SelectSeq(incomes, LAMBDA i : i > 0)))

\* calculate_gini without the sort of line 1211.
calculate_gini_unsorted(incomes) ==
    IF Len(incomes) = 0 THEN Zero
    ELSE LET pos_incomes == SelectSeq(incomes, LAMBDA i : i > 0)
         IN  IF Len(pos_incomes) = 0 THEN Zero ELSE GiniEstimator(pos_incomes)

\* calculate_gini without the filter of line 1209.
calculate_gini_unfiltered(incomes) ==
    IF Len(incomes) = 0 THEN Zero ELSE GiniEstimator(sorted(incomes))

calculate_gini(incomes) ==
    IF Len(incomes) = 0 THEN Zero
    ELSE LET pos_incomes == SelectSeq(incomes, LAMBDA i : i > 0)
         IN  IF Len(pos_incomes) = 0 THEN Zero
             ELSE GiniEstimator(sorted(pos_incomes))

(***************************************************************************)
(* calculate_gini in rounded arithmetic.  Every float operation returns    *)
(* the exact result rounded to the nearest value with a FloatBits-bit      *)
(* significand, ties to even (IEEE 754; 53 bits in the build, fewer here). *)
(***************************************************************************)
FloatBits == 8

RECURSIVE Pow2(_)
Pow2(k) == IF k = 0 THEN 1 ELSE 2 * Pow2(k - 1)

\* n / d (n >= 0, d > 0) to the nearest integer, ties to even.
RoundHalfEven(n, d) ==
    LET q == n \div d
        r == n % d
    IN  IF 2 * r < d THEN q
        ELSE IF 2 * r > d THEN q + 1
        ELSE IF q % 2 = 0 THEN q ELSE q + 1

\* n / d * 2^e with n / d > 0: scale the significand into
\* [2^(FloatBits-1), 2^FloatBits), round it, scale back.
RECURSIVE RoundScaled(_, _, _)
RoundScaled(n, d, e) ==
    IF n >= Pow2(FloatBits) * d THEN RoundScaled(n, 2 * d, e + 1)
    ELSE IF n < Pow2(FloatBits - 1) * d THEN RoundScaled(2 * n, d, e - 1)
    ELSE LET m == RoundHalfEven(n, d)
         IN  IF e >= 0 THEN Rat(m * Pow2(e), 1) ELSE Rat(m, Pow2(-e))

\* The float nearest to the rational x.
Float(x) ==
    IF IsRaised(x) \/ x[1] = 0 THEN x
    ELSE IF x[1] > 0 THEN RoundScaled(x[1], x[2], 0)
    ELSE RNeg(RoundScaled(-x[1], x[2], 0))

FAdd(x, y) == Float(RAdd(x, y))

FSub(x, y) == Float(RSub(x, y))

FMul(x, y) == Float(RMul(x, y))

FDiv(x, y) == Float(RDiv(x, y))

\* cumsum[-1]: the running total, rounded after every addition.
RECURSIVE FCumSum(_, _)
FCumSum(s, k) == IF k = 0 THEN Zero ELSE FAdd(FCumSum(s, k - 1), RInt(s[k]))

\* np.sum(np.arange(1, n + 1) * sorted_incomes): rounded products, added in order.
RECURSIVE FRankSum(_, _)
FRankSum(s, k) ==
    IF k = 0 THEN Zero ELSE FAdd(FRankSum(s, k - 1), FMul(RInt(k), RInt(s[k])))

\* The return expression of line 1214 in rounded arithmetic.
GiniEstimatorFloat(s) ==
    LET n == Len(s)
    IN  FSub(FDiv(FMul(RInt(2), FRankSum(s, n)), FMul(RInt(n), FCumSum(s, n))),
             FDiv(RInt(n + 1), RInt(n)))

\* calculate_gini (lines 1203-1214) in rounded arithmetic.
calculate_gini_float(incomes) ==
    IF Len(incomes) = 0 THEN Zero
    ELSE LET pos_incomes == SelectSeq(incomes, LAMBDA i : i > 0)
         IN  IF Len(pos_incomes) = 0 THEN Zero
             ELSE GiniEstimatorFloat(sorted(pos_incomes))

\* Incomes that are floats themselves (integers below 2^FloatBits).
FloatIncomeVals == {1, 3, 10, 87, 97, 171, 255}

(***************************************************************************)
(* Helpers shared by the forecast chains.                                  *)
(***************************************************************************)
\* (1 + effect)
Plus1(e) == RAdd(One, e)

RECURSIVE RSum(_)
RSum(s) == IF s = <<>> THEN Zero ELSE RAdd(Head(s), RSum(Tail(s)))

RECURSIVE RProd(_)
RProd(s) == IF s = <<>> THEN One ELSE RMul(Head(s), RProd(Tail(s)))

\* dict.get(year, 1): a missing entry counts as an effect of 100 %.
Get_default_one(table, year) == IF year \in DOMAIN table THEN table[year] ELSE <<1, 1>>

\* dict.get(year, 0)
Get(table, year) == IF year \in DOMAIN table THEN table[year] ELSE Zero

\* A schedule with the same magnitude in each of its years.
Schedule(years, v) == [y \in years |-> v]

\* A dict with no entries.
Empty == [k \in {} |-> Zero]

\* d = {k: v}: the assignment starts the dict afresh.
Assign_restart(d, k, v) == [x \in {k} |-> v]

\* d[k] = v
Assign(d, k, v) == [x \in DOMAIN d \cup {k} |-> IF x = k THEN v ELSE d[x]]

Half == Rat(1, 2)

(***************************************************************************)
(* Loaded tables (lines 38-72): profession_income[year][profession] and    *)
(* workforce[year][profession].                                            *)
(***************************************************************************)
\* profession_income[year][prof]: KeyError for a year or a profession with no row.
Income(t, year, prof) ==
    IF year \in DOMAIN t.profession_income /\ prof \in DOMAIN t.profession_income[year]
    THEN t.profession_income[year][prof] ELSE KeyError

\* workforce[year][prof]: a defaultdict, 0 for a profession with no row.
Workforce(t, year, prof) ==
    IF year \in DOMAIN t.workforce /\ prof \in DOMAIN t.workforce[year]
    THEN t.workforce[year][prof] ELSE 0

\* Fisher income per head in a year (the terms of lines 835-841).
FisherPerHead(t, year) ==
    RDiv(Income(t, year, "fisher"), RInt(Workforce(t, year, "fisher")))

(***************************************************************************)
(* Years 101-105 (src/main_script.py 134-316).                             *)
(* t: the loaded tables; c: the calibrated parameters of the chain.        *)
(***************************************************************************)
\* policy_multiplier_y combined as 1 + sum of the boosts.
policy_multiplier_additive(c, y) ==
    RAdd(One, RSum(<<c.PRESTIGE_PROJECT_BOOST[y], c.RETIREMENT_POLICY_BOOST[y],
                     c.TRAINING_PROGRAM_BOOST[y]>>))

\* policy_multiplier_101 .. policy_multiplier_105 (lines 224, 246, 268, 287, 306)
policy_multiplier(c, y) ==
    RProd(<<Plus1(c.PRESTIGE_PROJECT_BOOST[y]), Plus1(c.RETIREMENT_POLICY_BOOST[y]),
            Plus1(c.TRAINING_PROGRAM_BOOST[y])>>)

\* gdp_y without the population-productivity factor.
gdp_10x_no_productivity(c, y, gdp_prev, changes) ==
    RMul(RAdd(gdp_prev, RSum(changes)), policy_multiplier(c, y))

\* gdp_y = (gdp_{y-1} + the year's income changes) * POP_PRODUCTIVITY[y] * policy
gdp_10x(c, y, gdp_prev, changes) ==
    RProd(<<RAdd(gdp_prev, RSum(changes)), c.POP_PRODUCTIVITY[y], policy_multiplier(c, y)>>)

\* Year 101 with the civil-servant change left out of total_impact_101.
Year101_no_civil(t, c) ==
    LET fisher_101    == RMul(c.FISHER_LOW_AVG, RInt(Workforce(t, 100, "fisher")))
        farmer_101    == RProd(<<Income(t, 100, "farmer"), Plus1(c.LOCUST_FARMER_DAMAGE),
                                 Plus1(c.WEATHER_IMPACT[101])>>)
        craftsman_101 == RMul(Income(t, 100, "craftsman"), Plus1(c.CRAFTSMAN_GROWTH))
        service_101   == RMul(Income(t, 100, "service provider"), Plus1(c.SERVICE_GROWTH))
        civil_101     == RMul(Income(t, 100, "civil servant"), Plus1(c.CIVIL_WORKFORCE_DECLINE))
        total_impact_101 ==
            RSum(<<RSub(fisher_101, Income(t, 100, "fisher")), RSub(farmer_101, Income(t, 100, "farmer")),
                   RSub(craftsman_101, Income(t, 100, "craftsman")), RSub(service_101, Income(t, 100, "service provider"))>>)
    IN  [fisher |-> fisher_101, farmer |-> farmer_101, craftsman |-> craftsman_101,
         service |-> service_101, civil |-> civil_101,
         total_impact |-> total_impact_101,
         policy_multiplier |-> policy_multiplier(c, 101),
         gdp |-> gdp_10x(c, 101, t.gdp_data[100], <<total_impact_101>>)]

\* Year 101 with fisher income grown from the year-100 income, not re-based on
\* the low-phase average.
Year101_fisher_carried(t, c) ==
    LET fisher_101    == Income(t, 100, "fisher")
        farmer_101    == RProd(<<Income(t, 100, "farmer"), Plus1(c.LOCUST_FARMER_DAMAGE),
                                 Plus1(c.WEATHER_IMPACT[101])>>)
        craftsman_101 == RMul(Income(t, 100, "craftsman"), Plus1(c.CRAFTSMAN_GROWTH))
        service_101   == RMul(Income(t, 100, "service provider"), Plus1(c.SERVICE_GROWTH))
        civil_101     == RMul(Income(t, 100, "civil servant"), Plus1(c.CIVIL_WORKFORCE_DECLINE))
        total_impact_101 ==
            RSum(<<RSub(fisher_101, Income(t, 100, "fisher")), RSub(farmer_101, Income(t, 100, "farmer")),
                   RSub(craftsman_101, Income(t, 100, "craftsman")), RSub(service_101, Income(t, 100, "service provider")),
                   RSub(civil_101, Income(t, 100, "civil servant"))>>)
    IN  [fisher |-> fisher_101, farmer |-> farmer_101, craftsman |-> craftsman_101,
         service |-> service_101, civil |-> civil_101,
         total_impact |-> total_impact_101,
         policy_multiplier |-> policy_multiplier(c, 101),
         gdp |-> gdp_10x(c, 101, t.gdp_data[100], <<total_impact_101>>)]

\* Lines 206-225.
Year101(t, c) ==
    LET fisher_101    == RMul(c.FISHER_LOW_AVG, RInt(Workforce(t, 100, "fisher")))
        farmer_101    == RProd(<<Income(t, 100, "farmer"), Plus1(c.LOCUST_FARMER_DAMAGE),
                                 Plus1(c.WEATHER_IMPACT[101])>>)
        craftsman_101 == RMul(Income(t, 100, "craftsman"), Plus1(c.CRAFTSMAN_GROWTH))
        service_101   == RMul(Income(t, 100, "service provider"), Plus1(c.SERVICE_GROWTH))
        civil_101     == RMul(Income(t, 100, "civil servant"), Plus1(c.CIVIL_WORKFORCE_DECLINE))
        total_impact_101 ==
            RSum(<<RSub(fisher_101, Income(t, 100, "fisher")), RSub(farmer_101, Income(t, 100, "farmer")),
                   RSub(craftsman_101, Income(t, 100, "craftsman")), RSub(service_101, Income(t, 100, "service provider")),
                   RSub(civil_101, Income(t, 100, "civil servant"))>>)
    IN  [fisher |-> fisher_101, farmer |-> farmer_101, craftsman |-> craftsman_101,
         service |-> service_101, civil |-> civil_101,
         total_impact |-> total_impact_101,
         policy_multiplier |-> policy_multiplier(c, 101),
         gdp |-> gdp_10x(c, 101, t.gdp_data[100], <<total_impact_101>>)]

\* Year 102 with the farmer recovery taken from the year-101 forecast.
Year102_farmer_from_101(t, c, prev) ==
    LET fisher_102    == RMul(c.FISHER_LOW_AVG, RInt(Workforce(t, 100, "fisher")))
        farmer_102    == RProd(<<prev.farmer, Rat(7, 10), Plus1(c.WEATHER_IMPACT[102])>>)
        craftsman_102 == RMul(prev.craftsman, Plus1(c.CRAFTSMAN_GROWTH))
        service_102   == RMul(prev.service, Plus1(c.SERVICE_GROWTH))
        civil_102     == RMul(prev.civil, Plus1(c.CIVIL_WORKFORCE_DECLINE))
    IN  [fisher |-> fisher_102, farmer |-> farmer_102, craftsman |-> craftsman_102,
         service |-> service_102, civil |-> civil_102,
         policy_multiplier |-> policy_multiplier(c, 102),
         gdp |-> gdp_10x(c, 102, prev.gdp,
                         <<RSub(farmer_102, prev.farmer), RSub(fisher_102, prev.fisher),
                           RSub(craftsman_102, prev.craftsman),
                           RSub(service_102, prev.service), RSub(civil_102, prev.civil)>>)]

\* Lines 230-247.  farmer_102 is 70 % of the year-100 income.
Year102(t, c, prev) ==
    LET fisher_102    == RMul(c.FISHER_LOW_AVG, RInt(Workforce(t, 100, "fisher")))
        farmer_102    == RProd(<<Income(t, 100, "farmer"), Rat(7, 10), Plus1(c.WEATHER_IMPACT[102])>>)
        craftsman_102 == RMul(prev.craftsman, Plus1(c.CRAFTSMAN_GROWTH))
        service_102   == RMul(prev.service, Plus1(c.SERVICE_GROWTH))
        civil_102     == RMul(prev.civil, Plus1(c.CIVIL_WORKFORCE_DECLINE))
    IN  [fisher |-> fisher_102, farmer |-> farmer_102, craftsman |-> craftsman_102,
         service |-> service_102, civil |-> civil_102,
         policy_multiplier |-> policy_multiplier(c, 102),
         gdp |-> gdp_10x(c, 102, prev.gdp,
                         <<RSub(farmer_102, prev.farmer), RSub(fisher_102, prev.fisher),
                           RSub(craftsman_102, prev.craftsman),
                           RSub(service_102, prev.service), RSub(civil_102, prev.civil)>>)]

\* Lines 252-269.
Year103(t, c, prev) ==
    LET fisher_103    == RMul(c.FISHER_HIGH_AVG, RInt(Workforce(t, 100, "fisher")))
        farmer_103    == RMul(Income(t, 100, "farmer"), Plus1(c.WEATHER_IMPACT[103]))
        craftsman_103 == RMul(prev.craftsman, Plus1(c.CRAFTSMAN_GROWTH))
        service_103   == RMul(prev.service, Plus1(c.SERVICE_GROWTH))
        civil_103     == RMul(prev.civil, Plus1(c.CIVIL_WORKFORCE_DECLINE))
    IN  [fisher |-> fisher_103, farmer |-> farmer_103, craftsman |-> craftsman_103,
         service |-> service_103, civil |-> civil_103,
         policy_multiplier |-> policy_multiplier(c, 103),
         gdp |-> gdp_10x(c, 103, prev.gdp,
                         <<RSub(farmer_103, prev.farmer), RSub(fisher_103, prev.fisher),
                           RSub(craftsman_103, prev.craftsman),
                           RSub(service_103, prev.service), RSub(civil_103, prev.civil)>>)]

\* Lines 274-288.  No farmer income is computed for 104.
Year104(t, c, prev) ==
    LET fisher_104    == RMul(c.FISHER_LOW_AVG, RInt(Workforce(t, 100, "fisher")))
        craftsman_104 == RMul(prev.craftsman, Plus1(c.CRAFTSMAN_GROWTH))
        service_104   == RMul(prev.service, Plus1(c.SERVICE_GROWTH))
        civil_104     == RMul(prev.civil, Plus1(c.CIVIL_WORKFORCE_DECLINE))
    IN  [fisher |-> fisher_104, craftsman |-> craftsman_104,
         service |-> service_104, civil |-> civil_104,
         policy_multiplier |-> policy_multiplier(c, 104),
         gdp |-> gdp_10x(c, 104, prev.gdp,
                         <<RSub(fisher_104, prev.fisher), RSub(craftsman_104, prev.craftsman),
                           RSub(service_104, prev.service), RSub(civil_104, prev.civil)>>)]

\* Lines 293-307.  The weather modifier of 105 is applied to fisher income.
Year105(t, c, prev) ==
    LET fisher_105    == RProd(<<c.FISHER_LOW_AVG, RInt(Workforce(t, 100, "fisher")),
                                 Plus1(c.WEATHER_IMPACT[105])>>)
        craftsman_105 == RMul(prev.craftsman, Plus1(c.CRAFTSMAN_GROWTH))
        service_105   == RMul(prev.service, Plus1(c.SERVICE_GROWTH))
        civil_105     == RMul(prev.civil, Plus1(c.CIVIL_WORKFORCE_DECLINE))
    IN  [fisher |-> fisher_105, craftsman |-> craftsman_105,
         service |-> service_105, civil |-> civil_105,
         policy_multiplier |-> policy_multiplier(c, 105),
         gdp |-> gdp_10x(c, 105, prev.gdp,
                         <<RSub(fisher_105, prev.fisher), RSub(craftsman_105, prev.craftsman),
                           RSub(service_105, prev.service), RSub(civil_105, prev.civil)>>)]

(***************************************************************************)
(* Years 106-110 (lines 433-587).  The five year blocks are the same code  *)
(* with the year's schedule entries; fisher income is HIGH in 108 only.    *)
(***************************************************************************)
\* Lines 433-441, 461-464: the year-105 actuals that seed the 106+ chain.
Baseline105(t) ==
    [fisher     |-> Income(t, 105, "fisher"),
     farmer     |-> Income(t, 105, "farmer"),
     craftsman  |-> Income(t, 105, "craftsman"),
     service    |-> Income(t, 105, "service provider"),
     civil      |-> Income(t, 105, "civil servant"),
     retired    |-> Income(t, 105, "retired"),
     hm_income  |-> Income(t, 105, "homemaker"),
     unemp      |-> Income(t, 105, "unemployed"),
     hm_count   |-> RInt(Workforce(t, 105, "homemaker")),
     cum_entrant_inc |-> Zero]

\* policy_106 .. policy_110 combined as 1 + sum of the effects.
policy_106_110_additive(c, y) ==
    RAdd(One, RSum(<<Get(c.PRESTIGE_101_CARRYOVER, y), c.WIND_TRANSITION_DRAG,
                     Get(c.WIND_DISPLEASURE_DRAG, y), Get(c.PRESTIGE_106_BOOST, y)>>))

\* policy_106 .. policy_110 (lines 482-485, 507-510, 531-534, 555-558, 579-582)
policy_106_110(c, y) ==
    RProd(<<Plus1(Get(c.PRESTIGE_101_CARRYOVER, y)), Plus1(c.WIND_TRANSITION_DRAG),
            Plus1(Get(c.WIND_DISPLEASURE_DRAG, y)), Plus1(Get(c.PRESTIGE_106_BOOST, y))>>)

\* fisher_106 .. fisher_110 (lines 473, 498, 522, 546, 570)
fisher_106_110(t, c, y) ==
    RMul(IF y = 108 THEN c.FISHER_HIGH_AVG_R ELSE c.FISHER_LOW_AVG_R,
         RInt(Workforce(t, 105, "fisher")))

\* A year block of 106-110 whose policy multiplier compounds on the multiplier
\* of the year before.
Year106_110_compounding(t, c, y, prev) ==
    LET hm_leaving    == RMul(prev.hm_count, c.HOMEMAKER_EXIT_RATE)
        hm_count      == RSub(prev.hm_count, hm_leaving)
        hm_income     == RProd(<<prev.hm_income, Plus1(c.HOME_UNEMP_GROWTH),
                                 RDiv(hm_count, prev.hm_count)>>)
        unemp         == RMul(prev.unemp, Plus1(c.HOME_UNEMP_GROWTH))
        cum_entrant_inc ==
            RAdd(RMul(prev.cum_entrant_inc, Plus1(c.ENTRANT_GROWTH)),
                 RMul(hm_leaving, c.NEW_ENTRANT_INCOME))
        fisher        == fisher_106_110(t, c, y)
        craftsman     == RMul(prev.craftsman, Plus1(c.CRAFTSMAN_GROWTH_R))
        service       == RMul(prev.service, Plus1(c.SERVICE_GROWTH_R))
        civil         == RMul(prev.civil, Plus1(c.CIVIL_SERVANT_GROWTH_R))
        farmer        == RMul(prev.farmer, Plus1(c.FARMER_GROWTH_R))
        retired       == c.RETIRED_PROJ[y]
        prof_sum      == RSum(<<fisher, craftsman, service, civil, farmer, retired,
                                hm_income, unemp, cum_entrant_inc>>)
        policy        == IF "policy" \in DOMAIN prev
                         THEN RMul(prev.policy, policy_106_110(c, y))
                         ELSE policy_106_110(c, y)
    IN  [fisher |-> fisher, farmer |-> farmer, craftsman |-> craftsman,
         service |-> service, civil |-> civil, retired |-> retired,
         hm_income |-> hm_income, unemp |-> unemp, hm_count |-> hm_count,
         hm_leaving |-> hm_leaving, cum_entrant_inc |-> cum_entrant_inc,
         prof_sum |-> prof_sum, policy |-> policy,
         gdp |-> RProd(<<prof_sum, c.POP_PRODUCTIVITY_NEW[y], policy>>)]

\* One year block of 106-110: prev is the baseline or the previous year's values.
Year106_110(t, c, y, prev) ==
    LET hm_leaving    == RMul(prev.hm_count, c.HOMEMAKER_EXIT_RATE)
        hm_count      == RSub(prev.hm_count, hm_leaving)
        hm_income     == RProd(<<prev.hm_income, Plus1(c.HOME_UNEMP_GROWTH),
                                 RDiv(hm_count, prev.hm_count)>>)
        unemp         == RMul(prev.unemp, Plus1(c.HOME_UNEMP_GROWTH))
        cum_entrant_inc ==
            RAdd(RMul(prev.cum_entrant_inc, Plus1(c.ENTRANT_GROWTH)),
                 RMul(hm_leaving, c.NEW_ENTRANT_INCOME))
        fisher        == fisher_106_110(t, c, y)
        craftsman     == RMul(prev.craftsman, Plus1(c.CRAFTSMAN_GROWTH_R))
        service       == RMul(prev.service, Plus1(c.SERVICE_GROWTH_R))
        civil         == RMul(prev.civil, Plus1(c.CIVIL_SERVANT_GROWTH_R))
        farmer        == RMul(prev.farmer, Plus1(c.FARMER_GROWTH_R))
        retired       == c.RETIRED_PROJ[y]
        prof_sum      == RSum(<<fisher, craftsman, service, civil, farmer, retired,
                                hm_income, unemp, cum_entrant_inc>>)
        policy        == policy_106_110(c, y)
    IN  [fisher |-> fisher, farmer |-> farmer, craftsman |-> craftsman,
         service |-> service, civil |-> civil, retired |-> retired,
         hm_income |-> hm_income, unemp |-> unemp, hm_count |-> hm_count,
         hm_leaving |-> hm_leaving, cum_entrant_inc |-> cum_entrant_inc,
         prof_sum |-> prof_sum, policy |-> policy,
         gdp |-> RProd(<<prof_sum, c.POP_PRODUCTIVITY_NEW[y], policy>>)]

(***************************************************************************)
(* Recalibration from the 106-110 actuals and years 111-116                *)
(* (lines 835-841, 939-956, 964-1090).                                     *)
(***************************************************************************)
\* profession_income[year].get(prof, default)
IncomeGet(t, year, prof, default) ==
    IF prof \in DOMAIN t.profession_income[year]
    THEN t.profession_income[year][prof] ELSE default

\* workforce[year].get(prof, default): no defaultdict entry is created by get.
WorkforceGet(t, year, prof, default) ==
    IF year \in DOMAIN t.workforce /\ prof \in DOMAIN t.workforce[year]
    THEN t.workforce[year][prof] ELSE default

\* Lines 835-837.
FISHER_HIGH_AVG_110(t) ==
    RDiv(RSum(<<FisherPerHead(t, 102), FisherPerHead(t, 105), FisherPerHead(t, 108)>>),
         RInt(3))

\* Lines 838-841.
FISHER_LOW_AVG_110(t) ==
    RDiv(RSum(<<FisherPerHead(t, 106), FisherPerHead(t, 107), FisherPerHead(t, 109),
                FisherPerHead(t, 110)>>),
         RInt(4))

\* Lines 939-947, 956: the year-110 actuals that seed the 111+ chain, with the
\* cumulative new-entrant income left by the year-110 block (line 974 reads
\* cum_entrant_inc).
Baseline110(t, c, cum_entrant_inc) ==
    [fisher     |-> Income(t, 110, "fisher"),
     farmer     |-> Income(t, 110, "farmer"),
     craftsman  |-> Income(t, 110, "craftsman"),
     service    |-> Income(t, 110, "service provider"),
     civil      |-> Income(t, 110, "civil servant"),
     retired    |-> IncomeGet(t, 110, "retired", c.RETIRED_110_DEFAULT),
     hm_income  |-> IncomeGet(t, 110, "homemaker", c.HOMEMAKER_110_DEFAULT),
     unemp      |-> IncomeGet(t, 110, "unemployed", c.UNEMPLOYED_110_DEFAULT),
     hm_count   |-> RInt(WorkforceGet(t, 110, "homemaker", c.HM_COUNT_110_DEFAULT)),
     cum_entrant_inc |-> cum_entrant_inc]

\* policy_111 .. policy_116 combined as 1 + sum of the effects.
policy_111_116_additive(c, y) ==
    RAdd(One,
         RSum(  (IF y = 111 THEN <<Get(c.PRESTIGE_106_BOOST_EXT, y)>>
                 ELSE <<Get(c.COMMUNITY_CENTER_BOOST, y)>>)
             \o <<Get(c.SPORTS_FACILITIES_BOOST, y)>>
             \o (IF y >= 114 THEN <<Get(c.DROUGHT_CROPS_COST, y)>> ELSE <<>>)
             \o (IF y <= 115 THEN <<Get(c.TAX_REDISTRIBUTION_DRAG, y)>> ELSE <<>>)))

\* policy_111 .. policy_116 (lines 978-980, 997-999, 1016-1018, 1036-1039,
\* 1064-1067, 1085-1087): each year block multiplies the tables it names.
policy_111_116(c, y) ==
    RProd(  (IF y = 111 THEN <<Plus1(Get(c.PRESTIGE_106_BOOST_EXT, y))>>
             ELSE <<Plus1(Get(c.COMMUNITY_CENTER_BOOST, y))>>)
         \o <<Plus1(Get(c.SPORTS_FACILITIES_BOOST, y))>>
         \o (IF y >= 114 THEN <<Plus1(Get(c.DROUGHT_CROPS_COST, y))>> ELSE <<>>)
         \o (IF y <= 115 THEN <<Plus1(Get(c.TAX_REDISTRIBUTION_DRAG, y))>> ELSE <<>>))

\* fisher_111 .. fisher_116 (lines 965, 984, 1003, 1022, 1045, 1071)
fisher_111_116(t, y) ==
    RMul(IF y \in {111, 114} THEN FISHER_HIGH_AVG_110(t) ELSE FISHER_LOW_AVG_110(t),
         RInt(Workforce(t, 110, "fisher")))

\* Farmer income of 111..116 with each year's resistance factor applied on top
\* of the factors of the years before.
farmer_111_116_compounding(c, y, prev) ==
    LET growth == Plus1(c.FARMER_GROWTH_110)
        res(yr) == Plus1(Get(c.FARMER_CROP_RESISTANCE, yr))
    IN  IF y <= 113 THEN RMul(prev.farmer, growth)
        ELSE IF y = 114 THEN RProd(<<prev.farmer, growth, res(114)>>)
        ELSE IF y = 115 THEN
            RAdd(RMul(RProd(<<prev.farmer, growth, res(115)>>),
                      RSub(One, c.DROUGHT_PROBABILITY_115)),
                 RMul(RProd(<<prev.farmer, Plus1(c.DROUGHT_FARMER_DAMAGE),
                              Plus1(RMul(c.DROUGHT_CROPS_PROTECTION, c.DROUGHT_PROTECTION_SCALE)),
                              res(115)>>),
                      c.DROUGHT_PROBABILITY_115))
        ELSE RProd(<<prev.farmer, growth, c.DROUGHT_RECOVERY_BOOST, res(116)>>)

\* farmer_111 .. farmer_116 (lines 966, 985, 1004, 1024, 1048-1052, 1073)
farmer_111_116(c, y, prev) ==
    LET growth == Plus1(c.FARMER_GROWTH_110)
        res(yr) == Plus1(Get(c.FARMER_CROP_RESISTANCE, yr))
    IN  IF y <= 113 THEN RMul(prev.farmer, growth)
        ELSE IF y = 114 THEN RProd(<<prev.farmer, growth, res(114)>>)
        ELSE IF y = 115 THEN
            LET farmer_115_base == RDiv(prev.farmer, res(114))
                farmer_115_no_drought == RProd(<<farmer_115_base, growth, res(115)>>)
                farmer_115_with_drought ==
                    RProd(<<farmer_115_base, Plus1(c.DROUGHT_FARMER_DAMAGE),
                            Plus1(RMul(c.DROUGHT_CROPS_PROTECTION, c.DROUGHT_PROTECTION_SCALE)),
                            res(115)>>)
            IN  RAdd(RMul(farmer_115_no_drought, RSub(One, c.DROUGHT_PROBABILITY_115)),
                     RMul(farmer_115_with_drought, c.DROUGHT_PROBABILITY_115))
        ELSE RDiv(RProd(<<prev.farmer, growth, c.DROUGHT_RECOVERY_BOOST, res(116)>>),
                  res(115))

\* A year block of 111-116 in which the income of earlier entrants does not
\* grow.
Year111_116_entrants_not_grown(t, c, y, prev) ==
    LET fisher        == fisher_111_116(t, y)
        farmer        == farmer_111_116(c, y, prev)
        craftsman     == RMul(prev.craftsman, Plus1(c.CRAFTSMAN_GROWTH_110))
        service       == RMul(prev.service, Plus1(c.SERVICE_GROWTH_110))
        civil         == RMul(prev.civil, Plus1(c.CIVIL_SERVANT_GROWTH_110))
        retired       == c.RETIRED_PROJ_EXT[y]
        hm_count      == RMul(prev.hm_count, RSub(One, c.HOMEMAKER_EXIT_RATE))
        hm_income     == RProd(<<prev.hm_income, Plus1(c.HOME_UNEMP_GROWTH),
                                 RDiv(hm_count, prev.hm_count)>>)
        unemp         == RMul(prev.unemp, Plus1(c.HOME_UNEMP_GROWTH))
        cum_entrant   == RAdd(prev.cum_entrant_inc,
                              RMul(RSub(prev.hm_count, hm_count), c.NEW_ENTRANT_INCOME))
        prof_sum      == RSum(<<fisher, farmer, craftsman, service, civil, retired,
                                hm_income, unemp, cum_entrant>>)
        policy        == policy_111_116(c, y)
    IN  [fisher |-> fisher, farmer |-> farmer, craftsman |-> craftsman,
         service |-> service, civil |-> civil, retired |-> retired,
         hm_income |-> hm_income, unemp |-> unemp, hm_count |-> hm_count,
         hm_leaving |-> RSub(prev.hm_count, hm_count), cum_entrant_inc |-> cum_entrant,
         prof_sum |-> prof_sum, policy |-> policy,
         gdp |-> RProd(<<prof_sum, c.POP_PRODUCTIVITY_111[y], policy>>)]

\* One year block of 111-116: prev is the baseline or the previous year's values.
Year111_116(t, c, y, prev) ==
    LET fisher        == fisher_111_116(t, y)
        farmer        == farmer_111_116(c, y, prev)
        craftsman     == RMul(prev.craftsman, Plus1(c.CRAFTSMAN_GROWTH_110))
        service       == RMul(prev.service, Plus1(c.SERVICE_GROWTH_110))
        civil         == RMul(prev.civil, Plus1(c.CIVIL_SERVANT_GROWTH_110))
        retired       == c.RETIRED_PROJ_EXT[y]
        hm_count      == RMul(prev.hm_count, RSub(One, c.HOMEMAKER_EXIT_RATE))
        hm_income     == RProd(<<prev.hm_income, Plus1(c.HOME_UNEMP_GROWTH),
                                 RDiv(hm_count, prev.hm_count)>>)
        unemp         == RMul(prev.unemp, Plus1(c.HOME_UNEMP_GROWTH))
        cum_entrant   == RAdd(RMul(prev.cum_entrant_inc, Plus1(c.ENTRANT_GROWTH)),
                              RMul(RSub(prev.hm_count, hm_count), c.NEW_ENTRANT_INCOME))
        prof_sum      == RSum(<<fisher, farmer, craftsman, service, civil, retired,
                                hm_income, unemp, cum_entrant>>)
        policy        == policy_111_116(c, y)
    IN  [fisher |-> fisher, farmer |-> farmer, craftsman |-> craftsman,
         service |-> service, civil |-> civil, retired |-> retired,
         hm_income |-> hm_income, unemp |-> unemp, hm_count |-> hm_count,
         hm_leaving |-> RSub(prev.hm_count, hm_count), cum_entrant_inc |-> cum_entrant,
         prof_sum |-> prof_sum, policy |-> policy,
         gdp |-> RProd(<<prof_sum, c.POP_PRODUCTIVITY_111[y], policy>>)]

(***************************************************************************)
(* GDP forecast 116-120 (lines 1438, 1532-1577): one loop, each year from  *)
(* the previous year's forecast GDP.                                       *)
(***************************************************************************)
\* The cycle one year early: HIGH in the surge years 116 and 119.
FISHER_CYCLE_surge_years ==
    [y \in 116..120 |-> IF y \in {116, 119} THEN "HIGH" ELSE "LOW"]

\* FISHER_CYCLE_116_120 (lines 1532-1538)
FISHER_CYCLE_116_120 ==
    [y \in 116..120 |-> IF y \in {117, 120} THEN "HIGH" ELSE "LOW"]

\* The terms added up in policy_mult (lines 1561-1569).
policy_effects_116_120(c, year) ==
    <<Get(c.COMMUNITY_CENTER_TAX, year), Get(c.COMMUNITY_CENTER_BENEFIT, year),
      c.SECURITY_INFRASTRUCTURE_COST, Get(c.SECURITY_INFRASTRUCTURE_BENEFIT, year),
      Get(c.TRAINING_PROGRAMME_BOOST, year), Get(c.TRADE_AGREEMENT_BOOST, year),
      RAdd(c.RAIDER_GDP_BOOST, Get(c.RAIDER_GDP_REDUCTION, year))>>

\* policy_mult (lines 1572-1573): 1 + the sum of the effects.
policy_mult(c, year) == RAdd(One, RSum(policy_effects_116_120(c, year)))

\* One iteration of the loop of lines 1550-1577.
Year116_120(c, year, prev_gdp) ==
    LET fisher_effect == IF FISHER_CYCLE_116_120[year] = "HIGH"
                         THEN c.FISHER_HIGH_EFFECT ELSE c.FISHER_LOW_EFFECT
        pm == policy_mult(c, year)
    IN  [policy_mult |-> pm,
         gdp |-> RProd(<<prev_gdp, c.BASE_GROWTH, Plus1(fisher_effect), pm>>)]

(***************************************************************************)
(* Happiness forecast 116-120 (lines 1583-1615).                           *)
(***************************************************************************)
RMax(x, y) == IF RLt(x, y) THEN y ELSE x

RMin(x, y) == IF RLt(y, x) THEN y ELSE x

\* total_change (lines 1588-1612); gdp_growth divides by the GDP of the year
\* before.
total_change(c, year, gdp, prev_gdp) ==
    LET fisher_happy == IF FISHER_CYCLE_116_120[year] = "HIGH"
                        THEN c.FISHER_HAPPY_HIGH ELSE c.FISHER_HAPPY_LOW
        gdp_growth   == RDiv(RSub(gdp, prev_gdp), prev_gdp)
        econ_happy   == RMul(gdp_growth, c.ECON_HAPPY_SCALE)
    IN  RSum(<<Get(c.COMMUNITY_CENTER_HAPPINESS, year), Get(c.SECURITY_HAPPINESS_BOOST, year),
               Get(c.TRAINING_HAPPINESS, year), Get(c.TRADE_HAPPINESS, year),
               Get(c.RAIDER_HAPPINESS_DRAG, year), fisher_happy, econ_happy>>)

\* The year's happiness without the bounds of the scale.
happiness_step_unbounded(c, year, prev_happiness, gdp, prev_gdp) ==
    RAdd(prev_happiness, total_change(c, year, gdp, prev_gdp))

\* happiness_forecasts[year] (line 1614)
happiness_step(c, year, prev_happiness, gdp, prev_gdp) ==
    LET change == total_change(c, year, gdp, prev_gdp)
    IN  IF IsRaised(change) THEN change
        ELSE RMax(Zero, RMin(RInt(100), RAdd(prev_happiness, change)))

(***************************************************************************)
(* Gini projections (lines 1257-1305, 1439-1440, 1621-1651).               *)
(* Gini values are exact decimals: an integer number of units of           *)
(* 10^-16, held as <<hi, lo>> = hi * 10^8 + lo with 0 <= lo < 10^8.        *)
(* The tables are the source's literals, in thousandths.                   *)
(***************************************************************************)
Limb == 100000000

\* k thousandths.
Milli(k) == <<k * 100000, 0>>

DAdd(x, y) ==
    LET lo == x[2] + y[2]
    IN  <<x[1] + y[1] + (lo \div Limb), lo % Limb>>

DNeg(x) == IF x[2] = 0 THEN <<-x[1], 0>> ELSE <<-x[1] - 1, Limb - x[2]>>

DSub(x, y) == DAdd(x, DNeg(y))

\* x * 0.02: twice x, two decimal places down (exact while x has at most 14).
DTimesRate(x) ==
    LET d == DAdd(x, x)
    IN  <<d[1] \div 100, (d[1] % 100) * (Limb \div 100) + (d[2] \div 100)>>

DLe(x, y) == x[1] < y[1] \/ (x[1] = y[1] /\ x[2] <= y[2])

DLt(x, y) == x[1] < y[1] \/ (x[1] = y[1] /\ x[2] < y[2])

DZero == <<0, 0>>

DOne == <<Limb, 0>>

RECURSIVE DSum(_)
DSum(s) == IF s = <<>> THEN DZero ELSE DAdd(Head(s), DSum(Tail(s)))

\* A Gini coefficient n/d returned by calculate_gini, as a decimal (d divides 10^8).
ToDecimal(g) == <<g[1] * (Limb \div g[2]), 0>>

\* dict.get(year, 0) on a table of thousandths.
GetMilli(table, year) == IF year \in DOMAIN table THEN Milli(table[year]) ELSE DZero

\* Lines 1257-1263.
TAX_GINI_EFFECT == (111 :> -10) @@ (112 :> -12) @@ (113 :> -12) @@ (114 :> -10) @@ (115 :> -10)

\* Lines 1268-1274.
FISHER_GINI_EFFECT == (111 :> 6) @@ (112 :> -4) @@ (113 :> -4) @@ (114 :> 5) @@ (115 :> -4)

\* Lines 1278-1281.
FARMER_RESISTANCE_GINI == (114 :> 1) @@ (115 :> 1)

\* Lines 1284-1289.
COMMUNITY_GINI_EFFECT == (112 :> -2) @@ (113 :> -2) @@ (114 :> -2) @@ (115 :> -2)

\* The long-run target of line 1303, 0.35, in thousandths.
GINI_TARGET_MILLI == 350

\* The policy effects of lines 1297-1300 for a year.
predicted_gini_effects(year) ==
    DSum(<<GetMilli(TAX_GINI_EFFECT, year), GetMilli(FISHER_GINI_EFFECT, year),
           GetMilli(FARMER_RESISTANCE_GINI, year), GetMilli(COMMUNITY_GINI_EFFECT, year)>>)

\* Line 1303.
mean_reversion(base_gini) == DTimesRate(DSub(Milli(GINI_TARGET_MILLI), base_gini))

\* One iteration of the loop of lines 1293-1305.
predicted_gini_step(year, base_gini) ==
    DSum(<<base_gini, predicted_gini_effects(year), mean_reversion(base_gini)>>)

\* ACTUAL_GINI[115] (line 364), in thousandths.
GINI_115_FORMAL_MILLI == 370

GINI_115_FULL_MILLI == 520

\* The effects shared by both tracks (lines 1628, 1634, 1637, 1640-1643).
gini_shared_effects(year) ==
    LET community_gini == IF year >= 117 THEN Milli(-5) ELSE DZero
        training_gini  == IF year = 116 THEN Milli(-3) ELSE DZero
        trade_gini     == IF year >= 118 THEN Milli(2) ELSE DZero
        fisher_gini    == IF FISHER_CYCLE_116_120[year] = "HIGH" THEN Milli(5) ELSE Milli(-4)
    IN  DSum(<<community_gini, training_gini, trade_gini, fisher_gini>>)

\* security_gini_full (line 1631): -0.015 * (year - 115) / 5 = -0.003 * (year - 115).
security_gini_full(year) == Milli(-3 * (year - 115))

\* Line 1646.
gini_formal_step(year, prev_formal) == DAdd(prev_formal, gini_shared_effects(year))

\* The full track without its security adjustment.
gini_full_step_no_security(year, prev_full) ==
    DAdd(prev_full, gini_shared_effects(year))

\* Line 1650.
gini_full_step(year, prev_full) ==
    DSum(<<prev_full, gini_shared_effects(year), security_gini_full(year)>>)

(***************************************************************************)
(* Inputs.  The loaded tables are the rows of the two CSV files, summed    *)
(* per year and profession as the loader does; the calibrated parameters   *)
(* are the script's module-level constants.                                *)
(***************************************************************************)
\* profession_income[100]: the five tracked professions.
Income100Choices ==
    { ("fisher" :> RInt(1000)) @@ ("farmer" :> RInt(500)) @@ ("craftsman" :> Zero)
        @@ ("service provider" :> Zero) @@ ("civil servant" :> Zero),
      ("fisher" :> RInt(1000)) @@ ("farmer" :> RInt(500)) @@ ("craftsman" :> RInt(200))
        @@ ("service provider" :> RInt(100)) @@ ("civil servant" :> RInt(200)) }

Gdp100Choices == {RInt(1500), RInt(2000)}

\* The rows of the population file for the later years.  Both tables are
\* built from the same rows (lines 47-56, 63-72): a profession has an income
\* entry in a year exactly when it has a headcount there.
LaterRows == {"full", "net_cost_105", "no_homemaker_105", "no_optional_110", "no_fisher_110",
              "no_positive_income_110"}

\* individual_incomes[110]: the positive incomes of year 110.
Incomes110Choices == {<<10, 10, 10, 10>>, <<1, 1, 1, 97>>, <<1, 3>>}

FisherOnly(v) == ("fisher" :> RInt(v))

\* profession_income[105]: the year may have no homemaker row, or homemaker
\* costs that outweigh the incomes of the other professions.
Income105(rows) ==
    ("fisher" :> RInt(1230)) @@ ("farmer" :> RInt(400)) @@ ("craftsman" :> RInt(200))
    @@ ("service provider" :> RInt(100)) @@ ("civil servant" :> RInt(200))
    @@ ("retired" :> RInt(200)) @@ ("unemployed" :> RInt(-40))
    @@ (IF rows = "no_homemaker_105" THEN Empty
        ELSE IF rows = "net_cost_105" THEN ("homemaker" :> RInt(-3200))
        ELSE ("homemaker" :> RInt(-160)))

\* profession_income[110]: the year may have no fisher row, no retired,
\* homemaker and unemployed row, or no row with a positive income.
Income110(rows) ==
    IF rows = "no_positive_income_110"
    THEN ("fisher" :> Zero) @@ ("farmer" :> Zero) @@ ("craftsman" :> Zero)
         @@ ("service provider" :> Zero) @@ ("civil servant" :> Zero)
         @@ ("retired" :> Zero) @@ ("homemaker" :> RInt(-80))
         @@ ("unemployed" :> RInt(-40))
    ELSE (IF rows = "no_fisher_110" THEN Empty ELSE ("fisher" :> RInt(800)))
         @@ ("farmer" :> RInt(400)) @@ ("craftsman" :> RInt(200))
         @@ ("service provider" :> RInt(100)) @@ ("civil servant" :> RInt(200))
         @@ (IF rows = "no_optional_110" THEN Empty
             ELSE ("retired" :> RInt(300)) @@ ("homemaker" :> RInt(-80))
                  @@ ("unemployed" :> RInt(-40)))

Workforce105(rows) ==
    ("fisher" :> 10) @@ (IF rows = "no_homemaker_105" THEN Empty ELSE ("homemaker" :> 64))

Workforce110(rows) ==
    (IF rows = "no_fisher_110" THEN Empty ELSE ("fisher" :> 10))
    @@ (IF rows = "no_optional_110" THEN Empty ELSE ("homemaker" :> 32))

Tables(gdp_100, income_100, rows, incomes_110) ==
    [gdp_data |-> (100 :> gdp_100),
     profession_income |->
        (100 :> income_100) @@ (102 :> FisherOnly(1200)) @@ (105 :> Income105(rows))
        @@ (106 :> FisherOnly(800)) @@ (107 :> FisherOnly(820))
        @@ (108 :> FisherOnly(1260)) @@ (109 :> FisherOnly(780))
        @@ (110 :> Income110(rows)),
     workforce |->
        (100 :> ("fisher" :> 10)) @@ (102 :> ("fisher" :> 10))
        @@ (105 :> Workforce105(rows))
        @@ (106 :> ("fisher" :> 10)) @@ (107 :> ("fisher" :> 10))
        @@ (108 :> ("fisher" :> 10)) @@ (109 :> ("fisher" :> 10))
        @@ (110 :> Workforce110(rows)),
     individual_incomes |->
        (110 :> (IF rows = "no_positive_income_110" THEN <<>> ELSE incomes_110))]

TableChoices ==
    { Tables(g, i, r, l) : g \in Gdp100Choices, i \in Income100Choices,
                           r \in LaterRows, l \in Incomes110Choices }

\* The policy magnitudes of a run: none at all, or every effect of the script
\* with its sign and its schedule years.
PolicyChoices == {"none", "all"}

\* A policy effect v, or 0 when the run has no policy effects.
Effect(policies, v) == IF policies = "all" THEN v ELSE Zero

\* The constants of lines 90-197 (years 101-105).
Params101(policies, pop) ==
    [FISHER_LOW_AVG |-> RInt(80), FISHER_HIGH_AVG |-> RInt(120),
     LOCUST_FARMER_DAMAGE |-> RNeg(Half),
     WEATHER_IMPACT |-> (101 :> Zero) @@ (102 :> RNeg(Half)) @@ (103 :> Half)
                        @@ (104 :> Zero) @@ (105 :> RNeg(Half)),
     CRAFTSMAN_GROWTH |-> Half, SERVICE_GROWTH |-> One,
     CIVIL_WORKFORCE_DECLINE |-> RNeg(Half),
     POP_PRODUCTIVITY |-> Schedule(101..105, pop),
     PRESTIGE_PROJECT_BOOST |-> Schedule(101..105, Effect(policies, One)),
     RETIREMENT_POLICY_BOOST |-> Schedule(101..105, Effect(policies, RNeg(Half))),
     TRAINING_PROGRAM_BOOST |-> Schedule(101..105, Effect(policies, Half))]

\* The constants of lines 371-443 (years 106-110).
Params106(policies, exit_rate) ==
    [FISHER_HIGH_AVG_R |-> RInt(120), FISHER_LOW_AVG_R |-> RInt(80),
     CRAFTSMAN_GROWTH_R |-> Half, SERVICE_GROWTH_R |-> One,
     CIVIL_SERVANT_GROWTH_R |-> Half, FARMER_GROWTH_R |-> One,
     RETIRED_PROJ |-> (106 :> RInt(220)) @@ (107 :> RInt(240)) @@ (108 :> RInt(270))
                      @@ (109 :> RInt(300)) @@ (110 :> RInt(330)),
     HOME_UNEMP_GROWTH |-> One, HOMEMAKER_EXIT_RATE |-> exit_rate,
     NEW_ENTRANT_INCOME |-> RInt(4), ENTRANT_GROWTH |-> One,
     POP_PRODUCTIVITY_NEW |-> Schedule(106..110, One),
     PRESTIGE_101_CARRYOVER |-> Schedule({106}, Effect(policies, Half)),
     WIND_TRANSITION_DRAG |-> Effect(policies, RNeg(Half)),
     WIND_DISPLEASURE_DRAG |-> Schedule(106..110, Effect(policies, RNeg(Half))),
     PRESTIGE_106_BOOST |-> Schedule(107..110, Effect(policies, One))]

\* The constants of lines 865-956 (years 111-116) and the literals of lines
\* 943-945, 956, 1044, 1050 and 1073.
Params111(policies) ==
    [CRAFTSMAN_GROWTH_110 |-> RNeg(Half), SERVICE_GROWTH_110 |-> RNeg(Half),
     CIVIL_SERVANT_GROWTH_110 |-> Half, FARMER_GROWTH_110 |-> One,
     RETIRED_PROJ_EXT |-> (111 :> RInt(360)) @@ (112 :> RInt(380)) @@ (113 :> RInt(400))
                          @@ (114 :> RInt(420)) @@ (115 :> RInt(440)) @@ (116 :> RInt(460)),
     POP_PRODUCTIVITY_111 |-> Schedule(111..116, One),
     RETIRED_110_DEFAULT |-> RInt(350), HOMEMAKER_110_DEFAULT |-> RInt(-180),
     UNEMPLOYED_110_DEFAULT |-> RInt(-50), HM_COUNT_110_DEFAULT |-> 40,
     FARMER_CROP_RESISTANCE |-> (114 :> Rat(-3, 4)) @@ (115 :> RNeg(Half))
                                @@ (116 :> Rat(-1, 4)) @@ (117 :> Zero),
     DROUGHT_FARMER_DAMAGE |-> RNeg(Half), DROUGHT_CROPS_PROTECTION |-> Half,
     DROUGHT_PROTECTION_SCALE |-> Half, DROUGHT_PROBABILITY_115 |-> Half,
     DROUGHT_RECOVERY_BOOST |-> Rat(3, 2),
     PRESTIGE_106_BOOST_EXT |-> Schedule({111}, Effect(policies, Half)),
     COMMUNITY_CENTER_BOOST |-> Schedule(112..116, Effect(policies, Half)),
     SPORTS_FACILITIES_BOOST |-> Schedule(111..116, Effect(policies, Half)),
     DROUGHT_CROPS_COST |-> Schedule({114, 115}, Effect(policies, RNeg(Half))),
     TAX_REDISTRIBUTION_DRAG |-> Schedule(111..115, Effect(policies, RNeg(Half)))]

\* The constants of lines 339-355, 1438 and 1443-1538 and the literals of
\* lines 1552-1558, 1604-1610 (years 116-120).  The happiness schedules of a
\* run with policy effects move the index past both ends of its scale.
Params116(policies) ==
    [GDP_115 |-> RInt(1000), BASE_GROWTH |-> Rat(3, 2),
     HAPPINESS_BASELINE |-> RInt(100),
     COMMUNITY_CENTER_HAPPINESS |->
         (117 :> Effect(policies, RInt(2))) @@ (118 :> Effect(policies, RInt(30)))
         @@ (119 :> Effect(policies, RInt(4))) @@ (120 :> Effect(policies, RInt(100))),
     SECURITY_HAPPINESS_BOOST |->
         (116 :> Effect(policies, One)) @@ Schedule(117..120, Effect(policies, RInt(2))),
     TRAINING_HAPPINESS |-> Schedule({116}, Effect(policies, One)),
     TRADE_HAPPINESS |-> Schedule(118..120, Effect(policies, Rat(3, 2))),
     RAIDER_HAPPINESS_DRAG |->
         (116 :> Effect(policies, RInt(-5))) @@ (117 :> Effect(policies, RInt(-200)))
         @@ Schedule(118..120, Effect(policies, RInt(-2))),
     FISHER_HAPPY_HIGH |-> Rat(3, 2), FISHER_HAPPY_LOW |-> RInt(-1),
     ECON_HAPPY_SCALE |-> RInt(10),
     FISHER_HIGH_EFFECT |-> Half, FISHER_LOW_EFFECT |-> RNeg(Half),
     COMMUNITY_CENTER_TAX |-> Schedule({116}, Effect(policies, RNeg(Half))),
     COMMUNITY_CENTER_BENEFIT |-> Schedule(117..120, Effect(policies, One)),
     SECURITY_INFRASTRUCTURE_COST |-> Effect(policies, RNeg(Half)),
     SECURITY_INFRASTRUCTURE_BENEFIT |-> Schedule(116..120, Effect(policies, One)),
     TRAINING_PROGRAMME_BOOST |-> Schedule({116}, Effect(policies, Half)),
     TRADE_AGREEMENT_BOOST |-> Schedule(118..120, Effect(policies, Half)),
     RAIDER_GDP_BOOST |-> Effect(policies, Half),
     RAIDER_GDP_REDUCTION |-> (116 :> Zero) @@ Schedule(117..120, Effect(policies, RNeg(Half)))]

\* The script's module-level constants, one record.
Params(p101, pop, p106, exit_rate, p116) ==
    Params101(p101, pop) @@ Params106(p106, exit_rate) @@ Params111(p106)
    @@ Params116(p116)

\* HOMEMAKER_EXIT_RATE (line 422): a quarter of the homemakers a year, or all
\* of them in the first year, which leaves a headcount of zero.
HomemakerExitRates == {Rat(1, 4), One}

ParamChoices ==
    { Params(a, pop, b, x, c) : a \in PolicyChoices, pop \in {One, RInt(2)},
                                b \in PolicyChoices, x \in HomemakerExitRates,
                                c \in PolicyChoices }

(***************************************************************************)
(* State.                                                                  *)
(***************************************************************************)
VARIABLES
    pc,         \* the block of the script that runs next
    year,       \* the year the block is at
    tbl,        \* the loaded tables
    reader,     \* the rows of the population file and the row read next
    cfg,        \* the calibrated parameters
    forecast,   \* year -> the variables the year block of 101..116 assigned
    incomes,    \* the argument of the calculate_gini call
    gini,       \* what the call returned
    predicted_gini,          \* line 1292
    gdp_forecasts_116_120,   \* line 1547
    happiness_forecasts,     \* line 1583
    gini_formal_forecasts,   \* line 1621
    gini_full_forecasts      \* line 1622

vars == <<pc, year, tbl, reader, cfg, forecast, incomes, gini, predicted_gini,
          gdp_forecasts_116_120, happiness_forecasts, gini_formal_forecasts,
          gini_full_forecasts>>

(***************************************************************************)
(* The population file and its two loading loops (lines 46-72).  A row is  *)
(* the text of its three columns; int and float are the conversions of the *)
(* column texts the model draws.                                           *)
(***************************************************************************)
MaxRows == 3
YearTexts == {"105", "110"}
ProfessionTexts == {"fisher", "homemaker"}
IncomeTexts == {"-5", "0.0", "7"}

RowChoices == [year : YearTexts, profession : ProfessionTexts, income : IncomeTexts]

\* int(row['year'])
int(text) == CASE text = "105" -> 105 [] text = "110" -> 110

\* float(row['income'])
float(text) == CASE text = "-5" -> -5 [] text = "0.0" -> 0 [] text = "7" -> 7

\* The reader of a file that is not being read.
Closed == [rows |-> <<>>, line |-> 1]

\* d.get(k, default), and d[k] of a defaultdict
DefaultGet(d, k, default) == IF k \in DOMAIN d THEN d[k] ELSE default

\* Lines 54-56.
profession_income_add(d, yr, prof, income) ==
    LET of_year == DefaultGet(d, yr, Empty)
    IN  Assign(d, yr, Assign(of_year, prof, RAdd(DefaultGet(of_year, prof, Zero), RInt(income))))

\* Line 69.
population_add(d, yr) == Assign(d, yr, DefaultGet(d, yr, 0) + 1)

\* Counting a row forgets the other professions counted for its year.
workforce_add_one_profession(d, yr, prof) ==
    LET of_year == DefaultGet(d, yr, Empty)
    IN  Assign(d, yr, Assign(Empty, prof, DefaultGet(of_year, prof, 0) + 1))

\* Line 70.
workforce_add(d, yr, prof) ==
    LET of_year == DefaultGet(d, yr, Empty)
    IN  Assign(d, yr, Assign(of_year, prof, DefaultGet(of_year, prof, 0) + 1))

\* The sample keeps every income that is not negative.
individual_incomes_append_nonnegative(d, yr, income) ==
    IF income >= 0 THEN Assign(d, yr, Append(DefaultGet(d, yr, <<>>), income)) ELSE d

\* Lines 71-72.
individual_incomes_append(d, yr, income) ==
    IF income > 0 THEN Assign(d, yr, Append(DefaultGet(d, yr, <<>>), income)) ELSE d

\* An exception ended the run.
Aborted == pc \in {"KeyError", "ZeroDivisionError", "IndexError"}

(***************************************************************************)
(* SpecGini: one call of calculate_gini on any bounded income list.        *)
(***************************************************************************)
InitGini ==
    /\ pc = "call_gini"
    /\ year = 0
    /\ tbl = Empty /\ cfg = Empty /\ forecast = Empty
    /\ reader = Closed
    /\ incomes \in SeqsUpTo(IncomeVals, MaxLen)
    /\ gini = Zero
    /\ predicted_gini = Empty /\ gdp_forecasts_116_120 = Empty
    /\ happiness_forecasts = Empty
    /\ gini_formal_forecasts = Empty /\ gini_full_forecasts = Empty

CallGini ==
    /\ pc = "call_gini"
    /\ gini' = calculate_gini(incomes)
    /\ pc' = "gini_returned"
    /\ UNCHANGED <<year, tbl, reader, cfg, forecast, incomes, predicted_gini,
                   gdp_forecasts_116_120, happiness_forecasts, gini_formal_forecasts, gini_full_forecasts>>

NextGini == CallGini

SpecGini == InitGini /\ [][NextGini]_vars

(***************************************************************************)
(* SpecLoader: the two loops over the rows of the population file.         *)
(***************************************************************************)
InitLoader ==
    /\ pc = "load_profession_income"
    /\ year = 0
    /\ tbl = [profession_income |-> Empty, population |-> Empty,
              workforce |-> Empty, individual_incomes |-> Empty]
    /\ reader \in [rows : SeqsUpTo(RowChoices, MaxRows), line : {1}]
    /\ cfg = Empty /\ forecast = Empty
    /\ incomes = <<>>
    /\ gini = Zero
    /\ predicted_gini = Empty /\ gdp_forecasts_116_120 = Empty
    /\ happiness_forecasts = Empty
    /\ gini_formal_forecasts = Empty /\ gini_full_forecasts = Empty

\* One iteration of the loop of lines 49-56, or its end.
LoadProfessionIncome ==
    /\ pc = "load_profession_income"
    /\ IF reader.line > Len(reader.rows)
       THEN /\ pc' = "load_population"
            /\ reader' = [reader EXCEPT !.line = 1]
            /\ UNCHANGED tbl
       ELSE LET row == reader.rows[reader.line]
            IN  /\ tbl' = [tbl EXCEPT !.profession_income =
                              profession_income_add(@, int(row.year), row.profession,
                                                    float(row.income))]
                /\ reader' = [reader EXCEPT !.line = @ + 1]
                /\ UNCHANGED pc
    /\ UNCHANGED <<year, cfg, forecast, incomes, gini, predicted_gini,
                   gdp_forecasts_116_120, happiness_forecasts, gini_formal_forecasts, gini_full_forecasts>>

\* One iteration of the loop of lines 65-72, or its end.
LoadPopulation ==
    /\ pc = "load_population"
    /\ IF reader.line > Len(reader.rows)
       THEN pc' = "loaded" /\ UNCHANGED <<tbl, reader>>
       ELSE LET row == reader.rows[reader.line]
            IN  /\ tbl' = [tbl EXCEPT
                              !.population = population_add(@, int(row.year)),
                              !.workforce = workforce_add(@, int(row.year), row.profession),
                              !.individual_incomes =
                                  individual_incomes_append(@, int(row.year),
                                                            float(row.income))]
                /\ reader' = [reader EXCEPT !.line = @ + 1]
                /\ UNCHANGED pc
    /\ UNCHANGED <<year, cfg, forecast, incomes, gini, predicted_gini,
                   gdp_forecasts_116_120, happiness_forecasts, gini_formal_forecasts, gini_full_forecasts>>

NextLoader == LoadProfessionIncome \/ LoadPopulation

SpecLoader == InitLoader /\ [][NextLoader]_vars

(***************************************************************************)
(* SpecGiniFloat: one call of calculate_gini in rounded arithmetic.        *)
(***************************************************************************)
InitGiniFloat ==
    /\ pc = "call_gini_float"
    /\ year = 0
    /\ tbl = Empty /\ cfg = Empty /\ forecast = Empty
    /\ reader = Closed
    /\ incomes \in SeqsUpTo(FloatIncomeVals, MaxLen)
    /\ gini = Zero
    /\ predicted_gini = Empty /\ gdp_forecasts_116_120 = Empty
    /\ happiness_forecasts = Empty
    /\ gini_formal_forecasts = Empty /\ gini_full_forecasts = Empty

CallGiniFloat ==
    /\ pc = "call_gini_float"
    /\ gini' = calculate_gini_float(incomes)
    /\ pc' = "gini_returned"
    /\ UNCHANGED <<year, tbl, reader, cfg, forecast, incomes, predicted_gini,
                   gdp_forecasts_116_120, happiness_forecasts, gini_formal_forecasts, gini_full_forecasts>>

NextGiniFloat == CallGiniFloat

SpecGiniFloat == InitGiniFloat /\ [][NextGiniFloat]_vars

(***************************************************************************)
(* Spec: one run of the script, block by block in file order.  A block     *)
(* that raises ends the run.                                               *)
(***************************************************************************)
Init ==
    /\ pc = "forecast_101_105"
    /\ year = 101
    /\ tbl \in TableChoices
    /\ reader = Closed
    /\ cfg \in ParamChoices
    /\ forecast = Empty
    /\ incomes = <<>>
    /\ gini = Zero
    /\ predicted_gini = Empty /\ gdp_forecasts_116_120 = Empty
    /\ happiness_forecasts = Empty
    /\ gini_formal_forecasts = Empty /\ gini_full_forecasts = Empty

\* The year blocks 101 .. 105 (lines 206-307).
Forecast101_105 ==
    /\ pc = "forecast_101_105"
    /\ LET r == CASE year = 101 -> Year101(tbl, cfg)
                  [] year = 102 -> Year102(tbl, cfg, forecast[101])
                  [] year = 103 -> Year103(tbl, cfg, forecast[102])
                  [] year = 104 -> Year104(tbl, cfg, forecast[103])
                  [] year = 105 -> Year105(tbl, cfg, forecast[104])
       IN  forecast' = Assign(forecast, year, r)
    /\ pc' = IF year = 105 THEN "forecast_106_110" ELSE pc
    /\ year' = year + 1
    /\ UNCHANGED <<tbl, reader, cfg, incomes, gini, predicted_gini, gdp_forecasts_116_120, happiness_forecasts,
                   gini_formal_forecasts, gini_full_forecasts>>

\* The year blocks 106 .. 110 (lines 461-587).
Forecast106_110 ==
    /\ pc = "forecast_106_110"
    /\ LET prev == IF year = 106 THEN Baseline105(tbl) ELSE forecast[year - 1]
           r    == Year106_110(tbl, cfg, year, prev)
       IN  IF IsRaised(r.gdp)
           THEN pc' = ErrorName(r.gdp) /\ UNCHANGED <<year, forecast>>
           ELSE /\ forecast' = Assign(forecast, year, r)
                /\ pc' = IF year = 110 THEN "recalibrate_110" ELSE pc
                /\ year' = year + 1
    /\ UNCHANGED <<tbl, reader, cfg, incomes, gini, predicted_gini, gdp_forecasts_116_120, happiness_forecasts,
                   gini_formal_forecasts, gini_full_forecasts>>

\* The fisher averages of lines 835-841.
Recalibrate110 ==
    /\ pc = "recalibrate_110"
    /\ pc' = IF IsRaised(FISHER_HIGH_AVG_110(tbl)) THEN ErrorName(FISHER_HIGH_AVG_110(tbl))
             ELSE IF IsRaised(FISHER_LOW_AVG_110(tbl)) THEN ErrorName(FISHER_LOW_AVG_110(tbl))
             ELSE "forecast_111_116"
    /\ UNCHANGED <<year, tbl, reader, cfg, forecast, incomes, gini, predicted_gini,
                   gdp_forecasts_116_120, happiness_forecasts, gini_formal_forecasts, gini_full_forecasts>>

\* The year blocks 111 .. 116 (lines 964-1090).
Forecast111_116 ==
    /\ pc = "forecast_111_116"
    /\ LET prev == IF year = 111
                   THEN Baseline110(tbl, cfg, forecast[110].cum_entrant_inc)
                   ELSE forecast[year - 1]
           r    == Year111_116(tbl, cfg, year, prev)
       IN  IF IsRaised(r.gdp)
           THEN pc' = ErrorName(r.gdp) /\ UNCHANGED <<year, forecast>>
           ELSE /\ forecast' = Assign(forecast, year, r)
                /\ pc' = IF year = 116 THEN "historical_gini" ELSE pc
                /\ year' = year + 1
    /\ UNCHANGED <<tbl, reader, cfg, incomes, gini, predicted_gini, gdp_forecasts_116_120, happiness_forecasts,
                   gini_formal_forecasts, gini_full_forecasts>>

\* Lines 1217-1229 and 1292: the Gini coefficient of year 110 seeds the
\* prediction.  A year with no positive income has no historical_gini entry:
\* np.percentile raises IndexError on the empty sample or returns nan,
\* depending on the numpy version, and then historical_gini[110] raises KeyError.
HistoricalGini ==
    /\ pc = "historical_gini"
    /\ incomes' = tbl.individual_incomes[110]
    /\ IF Len(incomes') = 0
       THEN pc' \in {"IndexError", "KeyError"} /\ UNCHANGED <<year, gini, predicted_gini>>
       ELSE /\ gini' = calculate_gini(incomes')
            /\ predicted_gini' = (110 :> ToDecimal(gini'))
            /\ pc' = "predicted_gini"
            /\ year' = 111
    /\ UNCHANGED <<tbl, reader, cfg, forecast, gdp_forecasts_116_120, happiness_forecasts,
                   gini_formal_forecasts, gini_full_forecasts>>

\* One iteration of the loop of lines 1293-1305.
PredictGini ==
    /\ pc = "predicted_gini"
    /\ predicted_gini' =
           Assign(predicted_gini, year, predicted_gini_step(year, predicted_gini[year - 1]))
    /\ pc' = IF year = 115 THEN "gdp_116_120" ELSE pc
    /\ year' = year + 1
    /\ UNCHANGED <<tbl, reader, cfg, forecast, incomes, gini, gdp_forecasts_116_120, happiness_forecasts,
                   gini_formal_forecasts, gini_full_forecasts>>

\* One iteration of the loop of lines 1550-1577.
ForecastGdp116_120 ==
    /\ pc = "gdp_116_120"
    /\ LET prev_gdp == IF year = 116 THEN cfg.GDP_115
                       ELSE gdp_forecasts_116_120[year - 1].gdp
       IN  gdp_forecasts_116_120' =
               Assign(gdp_forecasts_116_120, year, Year116_120(cfg, year, prev_gdp))
    /\ pc' = IF year = 120 THEN "happiness_116_120" ELSE pc
    /\ year' = IF year = 120 THEN 116 ELSE year + 1
    /\ UNCHANGED <<tbl, reader, cfg, forecast, incomes, gini, predicted_gini,
                   happiness_forecasts, gini_formal_forecasts, gini_full_forecasts>>

\* One iteration of the loop of lines 1586-1615.
ForecastHappiness116_120 ==
    /\ pc = "happiness_116_120"
    /\ LET prev_happiness == IF year = 116 THEN cfg.HAPPINESS_BASELINE
                             ELSE happiness_forecasts[year - 1]
           prev_gdp       == IF year = 116 THEN cfg.GDP_115
                             ELSE gdp_forecasts_116_120[year - 1].gdp
           h == happiness_step(cfg, year, prev_happiness,
                               gdp_forecasts_116_120[year].gdp, prev_gdp)
       IN  IF IsRaised(h)
           THEN pc' = ErrorName(h) /\ UNCHANGED <<year, happiness_forecasts>>
           ELSE /\ happiness_forecasts' = Assign(happiness_forecasts, year, h)
                /\ pc' = IF year = 120 THEN "gini_116_120" ELSE pc
                /\ year' = IF year = 120 THEN 116 ELSE year + 1
    /\ UNCHANGED <<tbl, reader, cfg, forecast, incomes, gini, predicted_gini,
                   gdp_forecasts_116_120, gini_formal_forecasts, gini_full_forecasts>>

\* One iteration of the loop of lines 1626-1651.
ForecastGini116_120 ==
    /\ pc = "gini_116_120"
    /\ LET prev_formal == IF year = 116 THEN Milli(GINI_115_FORMAL_MILLI)
                          ELSE gini_formal_forecasts[year - 1]
           prev_full   == IF year = 116 THEN Milli(GINI_115_FULL_MILLI)
                          ELSE gini_full_forecasts[year - 1]
       IN  /\ gini_formal_forecasts' =
                  Assign(gini_formal_forecasts, year, gini_formal_step(year, prev_formal))
           /\ gini_full_forecasts' =
                  Assign(gini_full_forecasts, year, gini_full_step(year, prev_full))
    /\ pc' = IF year = 120 THEN "done" ELSE pc
    /\ year' = year + 1
    /\ UNCHANGED <<tbl, reader, cfg, forecast, incomes, gini, predicted_gini,
                   gdp_forecasts_116_120, happiness_forecasts>>

Next ==
    \/ Forecast101_105
    \/ Forecast106_110
    \/ Recalibrate110
    \/ Forecast111_116
    \/ HistoricalGini
    \/ PredictGini
    \/ ForecastGdp116_120
    \/ ForecastHappiness116_120
    \/ ForecastGini116_120

Spec == Init /\ [][Next]_vars

(***************************************************************************)
(* Claims about calculate_gini (C5 and C6 checked under SpecGiniFloat, C7  *)
(* and C8 under SpecGini).                                                 *)
(***************************************************************************)
Returned == pc = "gini_returned"

AllPositive(s) == \A i \in 1..Len(s) : s[i] > 0

AllEqual(s) == \A i \in 1..Len(s) : s[i] = s[1]

\* The i-th smallest entry of xs, by counting (no sort).
OrderStat(xs, i) ==
    LET vals == {xs[j] : j \in 1..Len(xs)}
        AtMost(v) == Cardinality({j \in 1..Len(xs) : xs[j] <= v})
    IN  CHOOSE v \in vals : AtMost(v) >= i /\ \A u \in vals : AtMost(u) >= i => v <= u

RECURSIVE WeightedRanks(_, _)
WeightedRanks(xs, i) ==
    IF i = 0 THEN 0 ELSE i * OrderStat(xs, i) + WeightedRanks(xs, i - 1)

\* g = 2 * sum(i * x_(i)) / (n * total) - (n + 1) / n, cleared of fractions:
\* g * n * total = 2 * sum(i * x_(i)) - (n + 1) * total.
IsDiscreteEstimator(g, xs) ==
    LET n == Len(xs)
        total == SeqSum(xs)
    IN  /\ ~IsRaised(g)
        /\ g[1] * n * total = g[2] * (2 * WeightedRanks(xs, n) - (n + 1) * total)

\* C5: for every non-empty list of strictly positive incomes, calculate_gini
\* returns a value g with 0 <= g < 1.
C5_GiniInUnitInterval ==
    (Returned /\ Len(incomes) > 0 /\ AllPositive(incomes))
        => (~IsRaised(gini) /\ RLe(Zero, gini) /\ RLt(gini, One))

\* C6: for every non-empty list of strictly positive incomes whose values are
\* all equal, calculate_gini returns exactly 0.
C6_GiniOfEqualIncomesIsZero ==
    (Returned /\ Len(incomes) > 0 /\ AllPositive(incomes) /\ AllEqual(incomes))
        => gini = Zero

\* C7: for every non-empty list of strictly positive incomes, calculate_gini
\* equals the discrete estimator 2 * sum(i * x_i) / (n * total) - (n + 1) / n over
\* the incomes in ascending order with ranks 1..n; [10,10,10,10] gives 0 and
\* [1,1,1,97] gives 0.72 (18/25).
C7_GiniIsDiscreteEstimator ==
    /\ (Returned /\ Len(incomes) > 0 /\ AllPositive(incomes))
           => IsDiscreteEstimator(gini, incomes)
    /\ (Returned /\ incomes = <<10, 10, 10, 10>>) => gini = Zero
    /\ (Returned /\ incomes = <<1, 1, 1, 97>>) => gini = Rat(72, 100)
    /\ (Returned /\ incomes = <<97, 1, 1, 1>>) => gini = Rat(72, 100)

\* The spec's unequal sample, handed over in descending order.
C7_Witness ==
    Returned /\ incomes = <<97, 1, 1, 1>> /\ gini = Rat(18, 25)

\* C8: calculate_gini on the empty list returns 0.0 as a value and raises no
\* error.
C8_GiniOfEmptyListIsZero ==
    (Returned /\ incomes = <<>>) => (gini = Zero /\ ~IsRaised(gini))

\* The call on the empty list has returned.
C8_Witness ==
    Returned /\ incomes = <<>> /\ Len(incomes) = 0 /\ gini = Zero

(***************************************************************************)
(* Claims about the GDP chains (checked under Spec).                       *)
(***************************************************************************)
Forecast(y) == y \in DOMAIN forecast

\* (1 + e) for every effect of a list.
Plus1All(e) == [i \in 1..Len(e) |-> Plus1(e[i])]

\* The policy effects each chain's year block names.
effects_101_105(c, y) ==
    <<c.PRESTIGE_PROJECT_BOOST[y], c.RETIREMENT_POLICY_BOOST[y], c.TRAINING_PROGRAM_BOOST[y]>>

effects_106_110(c, y) ==
    <<Get(c.PRESTIGE_101_CARRYOVER, y), c.WIND_TRANSITION_DRAG,
      Get(c.WIND_DISPLEASURE_DRAG, y), Get(c.PRESTIGE_106_BOOST, y)>>

effects_111_116(c, y) ==
       (IF y = 111 THEN <<Get(c.PRESTIGE_106_BOOST_EXT, y)>>
        ELSE <<Get(c.COMMUNITY_CENTER_BOOST, y)>>)
    \o <<Get(c.SPORTS_FACILITIES_BOOST, y)>>
    \o (IF y >= 114 THEN <<Get(c.DROUGHT_CROPS_COST, y)>> ELSE <<>>)
    \o (IF y <= 115 THEN <<Get(c.TAX_REDISTRIBUTION_DRAG, y)>> ELSE <<>>)

\* The multiplier a year block of 101..116 applied to its GDP.
AppliedMultiplier(y) ==
    IF y <= 105 THEN forecast[y].policy_multiplier ELSE forecast[y].policy

EffectsOf(y) ==
    IF y <= 105 THEN effects_101_105(cfg, y)
    ELSE IF y <= 110 THEN effects_106_110(cfg, y)
    ELSE effects_111_116(cfg, y)

\* The chains 101-105, 106-110 and 111-116 multiply the (1 + e) terms.
ChainsTo116Multiply ==
    \A y \in DOMAIN forecast : AppliedMultiplier(y) = RProd(Plus1All(EffectsOf(y)))

\* The loop of 116-120 multiplies the (1 + e) terms.
Chain116_120Multiplies ==
    \A y \in DOMAIN gdp_forecasts_116_120 :
        gdp_forecasts_116_120[y].policy_mult =
            RProd(Plus1All(policy_effects_116_120(cfg, y)))

\* C1: in every forecast chain (101-105, 106-110, 111-116, 116-120) and every
\* forecast year, the policy multiplier applied to GDP is the product of
\* (1 + e) over the year's policy effects, never 1 + their sum.
C1_EveryChainMultipliesEffects == ChainsTo116Multiply /\ Chain116_120Multiplies

\* The incomes of the five professions tracked from year 100.
Tracked == {"fisher", "farmer", "craftsman", "service provider", "civil servant"}

tracked_total_100 ==
    RSum(<<Income(tbl, 100, "fisher"), Income(tbl, 100, "farmer"),
           Income(tbl, 100, "craftsman"), Income(tbl, 100, "service provider"),
           Income(tbl, 100, "civil servant")>>)

\* The tracked total of a year block that computes all five incomes (101..103).
tracked_total(y) ==
    RSum(<<forecast[y].fisher, forecast[y].farmer, forecast[y].craftsman,
           forecast[y].service, forecast[y].civil>>)

\* The nine income terms of a year block of 106..116.
income_sum(y) ==
    RSum(<<forecast[y].fisher, forecast[y].craftsman, forecast[y].service,
           forecast[y].civil, forecast[y].farmer, forecast[y].retired,
           forecast[y].hm_income, forecast[y].unemp, forecast[y].cum_entrant_inc>>)

\* actual_gdp[100] / tracked_total[100]
scale_factor_100 == RDiv(tbl.gdp_data[100], tracked_total_100)

PopulationProductivity(y) ==
    IF y <= 105 THEN cfg.POP_PRODUCTIVITY[y]
    ELSE IF y <= 110 THEN cfg.POP_PRODUCTIVITY_NEW[y]
    ELSE cfg.POP_PRODUCTIVITY_111[y]

IncomeChanges(y) ==
    LET both == {"fisher", "farmer", "craftsman", "service", "civil"}
                    \cap DOMAIN forecast[y] \cap DOMAIN forecast[y - 1]
        change(f) == IF f \in both THEN RSub(forecast[y][f], forecast[y - 1][f]) ELSE Zero
    IN  RSum(<<change("fisher"), change("farmer"), change("craftsman"),
               change("service"), change("civil")>>)

C3_FirstYearIsSumOfProfessions ==
    (Forecast(101) /\ tracked_total_100 = tbl.gdp_data[100])
        => /\ RAdd(tbl.gdp_data[100], forecast[101].total_impact) = tracked_total(101)
           /\ forecast[101].gdp =
                  RProd(<<tracked_total(101), PopulationProductivity(101),
                          AppliedMultiplier(101)>>)

\* The anchor matches, all five professions have income, and year 101 has run.
C3_Witness ==
    /\ Forecast(101)
    /\ tracked_total_100 = tbl.gdp_data[100]
    /\ \A p \in Tracked : RLt(Zero, Income(tbl, 100, p))
    /\ forecast[101].total_impact # Zero

ScenarioA ==
    /\ Income(tbl, 100, "fisher") = RInt(1000)
    /\ Income(tbl, 100, "farmer") = RInt(500)
    /\ \A p \in Tracked \ {"fisher", "farmer"} : Income(tbl, 100, p) = Zero
    /\ Workforce(tbl, 100, "fisher") = 10
    /\ cfg.FISHER_LOW_AVG = RInt(80)
    /\ cfg.LOCUST_FARMER_DAMAGE = Rat(-1, 2)
    /\ cfg.WEATHER_IMPACT[101] = Zero

\* C4: on scenario A (year-100 incomes fisher 1000 and farmer 500, 10 fishers,
\* low-phase average 80, crop damage -0.5, no other effect) the year-101 block
\* yields fisher_101 = 800, farmer_101 = 250 and a tracked total of 1050.
C4_ScenarioA ==
    (Forecast(101) /\ ScenarioA)
        => /\ forecast[101].fisher = RInt(800)
           /\ forecast[101].farmer = RInt(250)
           /\ tracked_total(101) = RInt(1050)

C4_Witness == Forecast(101) /\ ScenarioA /\ pc = "forecast_101_105" /\ year = 102

(***************************************************************************)
(* Claims about the Gini projections (checked under Spec).                 *)
(***************************************************************************)
\* predicted_gini[y] is the previous value plus the year's policy effects plus
\* the mean-reversion term.
PredictedGiniRevertsToMean ==
    \A y \in DOMAIN predicted_gini \ {110} :
        predicted_gini[y] =
            DSum(<<predicted_gini[y - 1], predicted_gini_effects(y),
                   mean_reversion(predicted_gini[y - 1])>>)

\* The same update for the formal and the full track of 116-120.
Gini116_120RevertsToMean ==
    \A y \in DOMAIN gini_formal_forecasts :
        LET prev_formal == IF y = 116 THEN Milli(GINI_115_FORMAL_MILLI)
                           ELSE gini_formal_forecasts[y - 1]
            prev_full   == IF y = 116 THEN Milli(GINI_115_FULL_MILLI)
                           ELSE gini_full_forecasts[y - 1]
        IN  /\ gini_formal_forecasts[y] =
                   DSum(<<prev_formal, gini_shared_effects(y), mean_reversion(prev_formal)>>)
            /\ gini_full_forecasts[y] =
                   DSum(<<prev_full, gini_shared_effects(y), security_gini_full(y),
                          mean_reversion(prev_full)>>)

\* C9: in every Gini forecast chain (predicted 111-115, formal 116-120, full
\* 116-120) each year's value is the previous value plus the year's policy
\* Gini effects plus (target - previous) * reversion rate.
C9_EveryGiniChainRevertsToMean == PredictedGiniRevertsToMean /\ Gini116_120RevertsToMean

InUnitInterval(g) == DLe(DZero, g) /\ DLe(g, DOne)

\* C10: with a baseline Gini in [0, 1], every projected Gini (predicted_gini
\* 111-115, gini_formal_forecasts and gini_full_forecasts 116-120) is in [0, 1].
C10_ProjectedGiniInUnitInterval ==
    /\ (110 \in DOMAIN predicted_gini /\ InUnitInterval(predicted_gini[110]))
           => \A y \in DOMAIN predicted_gini : InUnitInterval(predicted_gini[y])
    /\ \A y \in DOMAIN gini_formal_forecasts : InUnitInterval(gini_formal_forecasts[y])
    /\ \A y \in DOMAIN gini_full_forecasts : InUnitInterval(gini_full_forecasts[y])

\* full - formal in a year of the 116-120 loop (115: the actual values).
GiniGap(y) ==
    IF y = 115 THEN DSub(Milli(GINI_115_FULL_MILLI), Milli(GINI_115_FORMAL_MILLI))
    ELSE DSub(gini_full_forecasts[y], gini_formal_forecasts[y])

\* C11: in the 116-120 Gini forecast the full track gets the shared effects of
\* the formal track plus a strictly negative security adjustment, so the gap
\* full - formal strictly decreases every year from the year-115 gap and is
\* still positive in every year to 120.
C11_GiniGapNarrowsAndStaysPositive ==
    \A y \in DOMAIN gini_full_forecasts :
        /\ DSub(GiniGap(y), GiniGap(y - 1)) = security_gini_full(y)
        /\ DLt(security_gini_full(y), DZero)
        /\ DLt(GiniGap(y), GiniGap(y - 1))
        /\ DLt(DZero, GiniGap(y))

\* The loop has finished: the gap went from 0.150 to 0.105.
C11_Witness ==
    /\ pc = "done"
    /\ DOMAIN gini_full_forecasts = 116..120
    /\ GiniGap(115) = Milli(150)
    /\ GiniGap(120) = Milli(105)

(***************************************************************************)
(* Claims about missing data and zero denominators (checked under Spec).   *)
(***************************************************************************)
\* A key the year-110 calibration and baseline steps read is absent.
MissingKey110 ==
    \/ \E p \in {"fisher", "retired", "homemaker", "unemployed"} :
           p \notin DOMAIN tbl.profession_income[110]
    \/ \E p \in {"fisher", "homemaker"} : p \notin DOMAIN tbl.workforce[110]
    \/ tbl.individual_incomes[110] = <<>>

\* C13: when a key required by a calibration or baseline step is absent from
\* the loaded tables, the run aborts with a missing-data error and no year of
\* the chain is computed from a substituted default.
C13_MissingDataAborts ==
    MissingKey110 => (~Forecast(111) /\ (Aborted => pc \in {"KeyError", "IndexError"}))

\* The headcount that year y's block divides by (hm_count_y / hm_count_prev).
hm_count_prev(y) ==
    IF y = 106 THEN RInt(Workforce(tbl, 105, "homemaker"))
    ELSE IF y = 111 THEN RInt(WorkforceGet(tbl, 110, "homemaker", cfg.HM_COUNT_110_DEFAULT))
    ELSE forecast[y - 1].hm_count

\* No field of a recorded year is the outcome of a failed operation.
NothingRaisedIsStored ==
    \A y \in DOMAIN forecast :
        \A f \in DOMAIN forecast[y] : ~IsRaised(forecast[y][f])

C15_NewChainStartsFromActualsOnly ==
    Forecast(111) =>
        /\ forecast[111] = Year111_116(tbl, cfg, 111, Baseline110(tbl, cfg, Zero))
        /\ forecast[111].cum_entrant_inc
               = RMul(forecast[111].hm_leaving, cfg.NEW_ENTRANT_INCOME)

\* The income of a profession in the year before y: the loaded actuals before
\* the first year of a chain, the previous year block otherwise.
prior_income(y, f) ==
    LET name == IF f = "service" THEN "service provider"
                ELSE IF f = "civil" THEN "civil servant" ELSE f
    IN  IF y = 101 THEN Income(tbl, 100, name)
        ELSE IF y = 106 THEN Income(tbl, 105, name)
        ELSE IF y = 111 THEN Income(tbl, 110, name)
        ELSE forecast[y - 1][f]

\* (1 + base growth) of craftsman, service provider and civil servant.
base_growth(y, f) ==
    Plus1(IF y <= 105 THEN (IF f = "craftsman" THEN cfg.CRAFTSMAN_GROWTH
                            ELSE IF f = "service" THEN cfg.SERVICE_GROWTH
                            ELSE cfg.CIVIL_WORKFORCE_DECLINE)
          ELSE IF y <= 110 THEN (IF f = "craftsman" THEN cfg.CRAFTSMAN_GROWTH_R
                                 ELSE IF f = "service" THEN cfg.SERVICE_GROWTH_R
                                 ELSE cfg.CIVIL_SERVANT_GROWTH_R)
          ELSE (IF f = "craftsman" THEN cfg.CRAFTSMAN_GROWTH_110
                ELSE IF f = "service" THEN cfg.SERVICE_GROWTH_110
                ELSE cfg.CIVIL_SERVANT_GROWTH_110))

\* The factors of the farmer step of year y (101..103 and 106..113).
farmer_factor(y) ==
    IF y = 101 THEN RMul(Plus1(cfg.LOCUST_FARMER_DAMAGE), Plus1(cfg.WEATHER_IMPACT[101]))
    ELSE IF y = 102 THEN RMul(Rat(7, 10), Plus1(cfg.WEATHER_IMPACT[102]))
    ELSE IF y = 103 THEN Plus1(cfg.WEATHER_IMPACT[103])
    ELSE IF y <= 110 THEN Plus1(cfg.FARMER_GROWTH_R)
    ELSE Plus1(cfg.FARMER_GROWTH_110)

FarmerStepYears == {101, 102, 103} \cup (106..113)

GrowthProfessionsFollowPriorYear ==
    \A y \in DOMAIN forecast : \A f \in {"craftsman", "service", "civil"} :
        forecast[y][f] = RMul(prior_income(y, f), base_growth(y, f))

fisher_level(y) ==
    IF y <= 105 THEN RProd(<<IF y = 103 THEN cfg.FISHER_HIGH_AVG ELSE cfg.FISHER_LOW_AVG,
                             RInt(Workforce(tbl, 100, "fisher")),
                             IF y = 105 THEN Plus1(cfg.WEATHER_IMPACT[105]) ELSE One>>)
    ELSE IF y <= 110 THEN RMul(IF y = 108 THEN cfg.FISHER_HIGH_AVG_R ELSE cfg.FISHER_LOW_AVG_R,
                               RInt(Workforce(tbl, 105, "fisher")))
    ELSE RMul(IF y \in {111, 114} THEN FISHER_HIGH_AVG_110(tbl) ELSE FISHER_LOW_AVG_110(tbl),
              RInt(Workforce(tbl, 110, "fisher")))

policy_schedules(y) ==
    IF y <= 110
    THEN <<cfg.PRESTIGE_101_CARRYOVER, Schedule(106..110, cfg.WIND_TRANSITION_DRAG),
           cfg.WIND_DISPLEASURE_DRAG, cfg.PRESTIGE_106_BOOST>>
    ELSE <<cfg.PRESTIGE_106_BOOST_EXT, cfg.COMMUNITY_CENTER_BOOST,
           cfg.SPORTS_FACILITIES_BOOST, cfg.DROUGHT_CROPS_COST,
           cfg.TAX_REDISTRIBUTION_DRAG>>

HasEntry(table, y) == y \in DOMAIN table

\* The product of (1 + effect) over the schedules that have an entry for y.
ActivePolicyProduct(y) ==
    LET active == SelectSeq(policy_schedules(y), LAMBDA table : HasEntry(table, y))
    IN  RProd([i \in 1..Len(active) |-> Plus1(active[i][y])])

Keeps(old, new) ==
    \A y \in DOMAIN old : y \in DOMAIN new /\ new[y] = old[y]

\* A step records exactly one further year, the year after the last recorded.
AppendsNextYear(old, new) ==
    \E y \in DOMAIN new :
        /\ DOMAIN new = DOMAIN old \cup {y}
        /\ y \notin DOMAIN old
        /\ \A k \in DOMAIN old : k < y
        /\ DOMAIN old # {} => y - 1 \in DOMAIN old

StepsInYearOrder(old, new) ==
    /\ Keeps(old, new)
    /\ new # old => AppendsNextYear(old, new)

\* C18: the year steps run in increasing year order, each once; a step
\* records the values of the year being computed and of no other year, and no
\* later step changes a recorded value (GDP, incomes, cumulative new-entrant
\* income, homemaker count).
C18_YearStepsRunInOrderAndKeepRecords ==
    [][ /\ StepsInYearOrder(forecast, forecast')
        /\ StepsInYearOrder(gdp_forecasts_116_120, gdp_forecasts_116_120')
        /\ StepsInYearOrder(predicted_gini, predicted_gini')
        /\ StepsInYearOrder(gini_formal_forecasts, gini_formal_forecasts')
        /\ StepsInYearOrder(gini_full_forecasts, gini_full_forecasts')
        /\ forecast' # forecast
               => /\ DOMAIN forecast' = DOMAIN forecast \cup {year}
                  /\ year' = year + 1
                  /\ pc \in {"forecast_101_105", "forecast_106_110", "forecast_111_116"}
        /\ gdp_forecasts_116_120' # gdp_forecasts_116_120
               => DOMAIN gdp_forecasts_116_120' = DOMAIN gdp_forecasts_116_120 \cup {year}
      ]_vars

\* The five steps of 106..110 have run on top of 101..105, with homemakers
\* leaving and new-entrant income accumulating from year to year.
C18_Witness ==
    /\ pc = "recalibrate_110" /\ DOMAIN forecast = 101..110
    /\ forecast[110].cum_entrant_inc # forecast[106].cum_entrant_inc
    /\ forecast[110].hm_count # forecast[106].hm_count

\* The rows the second loop has read.
RowsRead ==
    IF pc = "loaded" THEN reader.rows
    ELSE IF pc = "load_population" THEN SubSeq(reader.rows, 1, reader.line - 1)
    ELSE <<>>

\* The incomes above 0 of the rows of a year, one per row, in file order.
PositiveIncomesOf(rows, yr) ==
    LET kept == SelectSeq(rows, LAMBDA row : int(row.year) = yr /\ float(row.income) > 0)
    IN  [i \in 1..Len(kept) |-> float(kept[i].income)]

LoadedYears == {int(text) : text \in YearTexts}

\* C19: for every year the individual income sample holds exactly the incomes
\* above 0 of the year's rows, one entry per such row, and no zero or negative
\* income.
C19_SampleIsThePositiveIncomes ==
    \A yr \in LoadedYears :
        LET sample == DefaultGet(tbl.individual_incomes, yr, <<>>)
        IN  /\ Len(sample) = Len(PositiveIncomesOf(RowsRead, yr))
            /\ \A i \in 1..Len(sample) :
                   sample[i] = PositiveIncomesOf(RowsRead, yr)[i] /\ sample[i] > 0

\* A loaded file with two rows of positive income and one of income zero in
\* one year.
C19_Witness ==
    /\ pc = "loaded" /\ Len(reader.rows) = 3
    /\ \E yr \in LoadedYears :
           /\ \A i \in 1..3 : int(reader.rows[i].year) = yr
           /\ \E i \in 1..3 : float(reader.rows[i].income) = 0
           /\ Len(DefaultGet(tbl.individual_incomes, yr, <<>>)) = 2

\* C20: the forecast GDP of every forecast year of every chain is not
\* negative, whatever the loaded profession incomes, for a historical GDP that
\* is not negative.
C20_ForecastGdpIsNotNegative ==
    RLe(Zero, tbl.gdp_data[100]) =>
        /\ \A y \in DOMAIN forecast : RLe(Zero, forecast[y].gdp)
        /\ \A y \in DOMAIN gdp_forecasts_116_120 : RLe(Zero, gdp_forecasts_116_120[y].gdp)

\* The "Combined" column of the 106-110 breakdown table (lines 745-750).
combo_106_110(c, y) ==
    LET p101 == Get(c.PRESTIGE_101_CARRYOVER, y)
        wind == c.WIND_TRANSITION_DRAG
        disp == Get(c.WIND_DISPLEASURE_DRAG, y)
        p106 == Get(c.PRESTIGE_106_BOOST, y)
    IN  RProd(<<Plus1(p101), Plus1(wind), Plus1(disp), Plus1(p106)>>)

\* The "Combined" column without the drought-crops cost.
combo_111_115_no_drought(c, y) ==
    RProd(<<Plus1(Get(c.PRESTIGE_106_BOOST_EXT, y)), Plus1(Get(c.COMMUNITY_CENTER_BOOST, y)),
            Plus1(Get(c.SPORTS_FACILITIES_BOOST, y)), Plus1(Get(c.TAX_REDISTRIBUTION_DRAG, y))>>)

\* The "Combined" column of the 111-115 breakdown table (lines 1133-1139).
combo_111_115(c, y) ==
    LET p106    == Get(c.PRESTIGE_106_BOOST_EXT, y)
        comm    == Get(c.COMMUNITY_CENTER_BOOST, y)
        sport   == Get(c.SPORTS_FACILITIES_BOOST, y)
        tax     == Get(c.TAX_REDISTRIBUTION_DRAG, y)
        drought == Get(c.DROUGHT_CROPS_COST, y)
    IN  RProd(<<Plus1(p106), Plus1(comm), Plus1(sport), Plus1(tax), Plus1(drought)>>)

\* f"{x:+.2%}": x in hundredths of a percent, rounded to nearest, ties to even.
format_percent_2(x) ==
    IF x[1] >= 0 THEN RoundHalfEven(x[1] * 10000, x[2])
    ELSE -RoundHalfEven(-x[1] * 10000, x[2])

ReportedCombo(y) == IF y <= 110 THEN combo_106_110(cfg, y) ELSE combo_111_115(cfg, y)

\* C21: the combined multiplier the breakdown tables show for a year of
\* 106..115 is the policy multiplier applied to that year's GDP.
C21_ReportedComboIsAppliedMultiplier ==
    \A y \in DOMAIN forecast \cap (106..115) :
        /\ ReportedCombo(y) = forecast[y].policy
        /\ format_percent_2(ReportedCombo(y)) = format_percent_2(forecast[y].policy)
        /\ forecast[y].gdp = RProd(<<forecast[y].prof_sum,
                                     IF y <= 110 THEN cfg.POP_PRODUCTIVITY_NEW[y]
                                     ELSE cfg.POP_PRODUCTIVITY_111[y],
                                     ReportedCombo(y)>>)

\* Both tables are printed for a run with policy effects: the drought cost
\* is active in 114 and the multipliers differ from year to year.
C21_Witness ==
    /\ Forecast(106) /\ Forecast(115)
    /\ Get(cfg.DROUGHT_CROPS_COST, 114) # Zero
    /\ forecast[114].policy # One
    /\ forecast[114].policy # forecast[113].policy
    /\ forecast[106].policy # forecast[107].policy

\* (1 + FARMER_CROP_RESISTANCE.get(y, 0))
resistance_factor(y) == Plus1(Get(cfg.FARMER_CROP_RESISTANCE, y))

\* farmer_115_base (line 1048), from the recorded farmer income of 114.
farmer_115_base == RDiv(forecast[114].farmer, resistance_factor(114))

\* farmer_115_no_drought (line 1049).
farmer_115_no_drought ==
    RProd(<<farmer_115_base, Plus1(cfg.FARMER_GROWTH_110), resistance_factor(115)>>)

\* farmer_115_with_drought, recovered from the expected value of line 1052.
farmer_115_with_drought ==
    RDiv(RSub(forecast[115].farmer,
              RMul(farmer_115_no_drought, RSub(One, cfg.DROUGHT_PROBABILITY_115))),
         cfg.DROUGHT_PROBABILITY_115)

\* C22: in the drought scenario of 115 the protected farmer income loss, taken
\* before the resistance factor, is the unprotected loss reduced by the
\* protection share (half of it for a protection of 50 %).
C22_ProtectionHalvesDroughtLoss ==
    Forecast(115) =>
        LET unprotected_loss == RMul(farmer_115_base, cfg.DROUGHT_FARMER_DAMAGE)
            protected_loss   == RSub(RDiv(farmer_115_with_drought, resistance_factor(115)),
                                     farmer_115_base)
        IN  protected_loss
                = RMul(unprotected_loss, RSub(One, cfg.DROUGHT_CROPS_PROTECTION))

\* The year block of y in 101..105 run with the parameters c on the recorded
\* values of the year before.
YearBlock_101_105(y, c) ==
    IF y = 101 THEN Year101(tbl, c)
    ELSE IF y = 102 THEN Year102(tbl, c, forecast[101])
    ELSE IF y = 103 THEN Year103(tbl, c, forecast[102])
    ELSE IF y = 104 THEN Year104(tbl, c, forecast[103])
    ELSE Year105(tbl, c, forecast[104])

WeatherChoices == {Zero, Half, RNeg(Half)}

\* C23: in 101..105 a different weather modifier for year y, all else fixed,
\* changes no income of y but the farmer's, and changes the GDP of y only by
\* the change of the farmer income times the year's multipliers.
C23_WeatherChangesOnlyFarmerIncome ==
    \A y \in DOMAIN forecast \cap (101..105) : \A w \in WeatherChoices :
        LET other == YearBlock_101_105(y, [cfg EXCEPT !.WEATHER_IMPACT[y] = w])
            farmer_change ==
                IF "farmer" \in DOMAIN other
                THEN RSub(other.farmer, forecast[y].farmer) ELSE Zero
        IN  /\ \A f \in {"fisher", "craftsman", "service", "civil"} :
                   other[f] = forecast[y][f]
            /\ RSub(other.gdp, forecast[y].gdp)
                   = RProd(<<farmer_change, cfg.POP_PRODUCTIVITY[y],
                             forecast[y].policy_multiplier>>)

\* max(0, min(100, x))
Clamp(x) == IF RLt(x, Zero) THEN Zero ELSE IF RLt(RInt(100), x) THEN RInt(100) ELSE x

\* The happiness of the year before y.
prev_happiness(y) == IF y = 116 THEN cfg.HAPPINESS_BASELINE ELSE happiness_forecasts[y - 1]

\* C24: every forecast happiness value of 116..120 lies in [0, 100] and is the
\* value of the year before, 100 for 116, plus the year's total change,
\* clamped to [0, 100].
C24_HappinessIsClampedRunningSum ==
    /\ cfg # Empty => cfg.HAPPINESS_BASELINE = RInt(100)
    /\ \A y \in DOMAIN happiness_forecasts :
           LET prev_gdp == IF y = 116 THEN cfg.GDP_115 ELSE gdp_forecasts_116_120[y - 1].gdp
               change   == total_change(cfg, y, gdp_forecasts_116_120[y].gdp, prev_gdp)
           IN  /\ RLe(Zero, happiness_forecasts[y])
               /\ RLe(happiness_forecasts[y], RInt(100))
               /\ happiness_forecasts[y] = Clamp(RAdd(prev_happiness(y), change))

\* A run whose happiness is cut at 0 in one year and at 100 in another, and
\* lies strictly inside the scale in a third.
C24_Witness ==
    /\ DOMAIN happiness_forecasts = 116..120
    /\ \E y \in 116..120 : happiness_forecasts[y] = Zero
    /\ \E y \in 117..120 : happiness_forecasts[y] = RInt(100) /\ happiness_forecasts[y - 1] # RInt(100)
    /\ \E y \in 116..120 : RLt(Zero, happiness_forecasts[y]) /\ RLt(happiness_forecasts[y], RInt(100))

\* The values year y of 106..116 starts from: the loaded actuals in the first
\* year of a chain, the year before otherwise.
prev_of(t, c, y) ==
    IF y = 106 THEN Baseline105(t)
    ELSE IF y = 111 THEN Baseline110(t, c, forecast[110].cum_entrant_inc)
    ELSE forecast[y - 1]

\* The year block of y in 106..116.
YearBlock_106_116(t, c, y, prev) ==
    IF y <= 110 THEN Year106_110(t, c, y, prev) ELSE Year111_116(t, c, y, prev)

\* Other historical GDP figures, and other multipliers for the year y.
OtherGdp(t) == [t EXCEPT !.gdp_data = [y \in DOMAIN t.gdp_data |-> RInt(7)]]

OtherMultipliers(c, y) ==
    IF y <= 110
    THEN [c EXCEPT !.POP_PRODUCTIVITY_NEW[y] = Rat(3, 2), !.WIND_DISPLEASURE_DRAG[y] = Rat(1, 4)]
    ELSE [c EXCEPT !.POP_PRODUCTIVITY_111[y] = Rat(3, 2), !.SPORTS_FACILITIES_BOOST[y] = Rat(1, 4)]

\* The fields of a year's record that its multipliers enter.
MultipliedFields == {"gdp", "policy"}

\* The year whose block has just run; recorded years do not change afterwards.
JustRecorded ==
    IF pc \in {"forecast_101_105", "forecast_106_110", "recalibrate_110",
               "forecast_111_116", "historical_gini"}
    THEN DOMAIN forecast \cap {year - 1} ELSE {}

\* A year's multipliers and the historical GDP reach only the year's own
\* policy and gdp; the next year's GDP reads neither of the two.
GdpIndependentOfEarlierYears ==
    \A y \in JustRecorded \cap (106..116) :
        LET prev    == prev_of(tbl, cfg, y)
            changed == YearBlock_106_116(OtherGdp(tbl), OtherMultipliers(cfg, y), y, prev)
        IN  /\ YearBlock_106_116(OtherGdp(tbl), cfg, y, prev) = forecast[y]
            /\ \A f \in DOMAIN forecast[y] \ MultipliedFields : changed[f] = forecast[y][f]
            /\ y \notin {106, 111} =>
                   YearBlock_106_116(tbl, cfg, y,
                                     [prev EXCEPT !.gdp = RInt(7), !.policy = RInt(3)]).gdp
                       = forecast[y].gdp

\* The product of productivity and policy multiplier of the years a..b.
RECURSIVE MultiplierProduct(_, _)
MultiplierProduct(a, b) ==
    IF a > b THEN One
    ELSE RProd(<<PopulationProductivity(a), AppliedMultiplier(a), MultiplierProduct(a + 1, b)>>)

\* What year k of 101..105 adds to the GDP of the year before.
added_in(k) == IF k = 101 THEN forecast[101].total_impact ELSE IncomeChanges(k)

Gdp105CompoundsAllMultipliers ==
    105 \in JustRecorded =>
        forecast[105].gdp =
            RAdd(RMul(tbl.gdp_data[100], MultiplierProduct(101, 105)),
                 RSum([i \in 1..5 |-> RMul(added_in(100 + i), MultiplierProduct(100 + i, 105))]))

\* C25: in 106-110 and 111-116 the GDP of a year does not change with the
\* historical GDP or with the multipliers of an earlier year; in 101-105 the
\* multipliers of every year apply to the GDP carried from the year before, so
\* gdp_105 holds gdp_100 times the product of the multipliers of all five years.
C25_GdpDependence ==
    GdpIndependentOfEarlierYears /\ Gdp105CompoundsAllMultipliers

\* All three chains have run with policy effects, and the multipliers of
\* 101..105 together are not 1.
C25_Witness ==
    /\ Forecast(105) /\ Forecast(110) /\ Forecast(116)
    /\ MultiplierProduct(101, 105) # One
    /\ forecast[107].policy # One /\ forecast[112].policy # One
    /\ forecast[105].gdp # forecast[104].gdp

\* The fisher income of year y of 106..116 in a HIGH and in a LOW year.
fisher_high_level(y) ==
    IF y <= 110 THEN RMul(cfg.FISHER_HIGH_AVG_R, RInt(Workforce(tbl, 105, "fisher")))
    ELSE RMul(FISHER_HIGH_AVG_110(tbl), RInt(Workforce(tbl, 110, "fisher")))

fisher_low_level(y) ==
    IF y <= 110 THEN RMul(cfg.FISHER_LOW_AVG_R, RInt(Workforce(tbl, 105, "fisher")))
    ELSE RMul(FISHER_LOW_AVG_110(tbl), RInt(Workforce(tbl, 110, "fisher")))

HighYear(y) == y % 3 = 0

\* The fisher term of the Gini prediction of 111..115 and of the Gini
\* forecasts of 116..120, recovered from the recorded series.
fisher_gini_of(y) ==
    IF y <= 115
    THEN DSub(predicted_gini[y],
              DSum(<<predicted_gini[y - 1], GetMilli(TAX_GINI_EFFECT, y),
                     GetMilli(FARMER_RESISTANCE_GINI, y), GetMilli(COMMUNITY_GINI_EFFECT, y),
                     mean_reversion(predicted_gini[y - 1])>>))
    ELSE DSub(gini_formal_forecasts[y],
              DSum(<<IF y = 116 THEN Milli(GINI_115_FORMAL_MILLI) ELSE gini_formal_forecasts[y - 1],
                     IF y >= 117 THEN Milli(-5) ELSE DZero,
                     IF y = 116 THEN Milli(-3) ELSE DZero,
                     IF y >= 118 THEN Milli(2) ELSE DZero>>))

\* The fisher term of the happiness change of year y: the total change at no
\* GDP growth less the year's schedule entries.
fisher_happy_of(y) ==
    RSub(total_change(cfg, y, One, One),
         RSum(<<Get(cfg.COMMUNITY_CENTER_HAPPINESS, y), Get(cfg.SECURITY_HAPPINESS_BOOST, y),
                Get(cfg.TRAINING_HAPPINESS, y), Get(cfg.TRADE_HAPPINESS, y),
                Get(cfg.RAIDER_HAPPINESS_DRAG, y)>>))

\* The fisher factor of the GDP of year y of 116..120.
fisher_gdp_factor_of(y) ==
    RDiv(gdp_forecasts_116_120[y].gdp,
         RProd(<<IF y = 116 THEN cfg.GDP_115 ELSE gdp_forecasts_116_120[y - 1].gdp,
                 cfg.BASE_GROWTH, gdp_forecasts_116_120[y].policy_mult>>))

\* C26: from 106 to 120 fisher income is HIGH exactly in the years divisible
\* by 3 and LOW in the others, so each HIGH year is followed by two LOW years;
\* the fisher terms of the Gini and happiness forecasts are positive in
\* exactly those years.
C26_FisherHighEveryThirdYear ==
    /\ \A y \in DOMAIN forecast \cap (106..116) :
           forecast[y].fisher = IF HighYear(y) THEN fisher_high_level(y) ELSE fisher_low_level(y)
    /\ \A y \in DOMAIN gdp_forecasts_116_120 :
           /\ FISHER_CYCLE_116_120[y] = "HIGH" <=> HighYear(y)
           /\ fisher_gdp_factor_of(y)
                  = Plus1(IF HighYear(y) THEN cfg.FISHER_HIGH_EFFECT ELSE cfg.FISHER_LOW_EFFECT)
    /\ \A y \in (DOMAIN predicted_gini \ {110}) \cup DOMAIN gini_formal_forecasts :
           DLt(DZero, fisher_gini_of(y)) <=> HighYear(y)
    /\ \A y \in DOMAIN happiness_forecasts :
           RLt(Zero, fisher_happy_of(y)) <=> HighYear(y)
    /\ \A y \in 106..118 :
           HighYear(y) => ~HighYear(y + 1) /\ ~HighYear(y + 2)

\* A whole run in which the HIGH and LOW fisher incomes differ in each chain.
C26_Witness ==
    /\ pc = "done" /\ DOMAIN gini_formal_forecasts = 116..120
    /\ forecast[108].fisher # forecast[107].fisher
    /\ forecast[111].fisher # forecast[112].fisher
    /\ fisher_gdp_factor_of(117) # fisher_gdp_factor_of(116)
    /\ DLt(DZero, fisher_gini_of(120)) /\ DLt(fisher_gini_of(119), DZero)

\* -1, 0 or 1
Sign(x) == IF RLt(x, Zero) THEN -1 ELSE IF RLt(Zero, x) THEN 1 ELSE 0

\* Some but not all homemakers leave in a year, as with the rate of 2 %.
PartialExit == RLt(Zero, cfg.HOMEMAKER_EXIT_RATE) /\ RLt(cfg.HOMEMAKER_EXIT_RATE, One)

expected_factor_115 ==
    RAdd(RMul(Plus1(cfg.FARMER_GROWTH_110), RSub(One, cfg.DROUGHT_PROBABILITY_115)),
         RMul(RMul(Plus1(cfg.DROUGHT_FARMER_DAMAGE),
                   Plus1(RMul(cfg.DROUGHT_CROPS_PROTECTION, cfg.DROUGHT_PROTECTION_SCALE))),
              cfg.DROUGHT_PROBABILITY_115))

\* C28: the crop-resistance factor of a year is not carried into the next:
\* the no-drought farmer income of 115 is farmer_113 * (1 + growth)^2 times the
\* resistance factor of 115 alone, and farmer_116 holds the resistance factor
\* of 116 alone.
C28_ResistanceDoesNotCompound ==
    /\ Forecast(115) =>
           farmer_115_no_drought
               = RProd(<<forecast[113].farmer, Plus1(cfg.FARMER_GROWTH_110),
                         Plus1(cfg.FARMER_GROWTH_110), resistance_factor(115)>>)
    /\ Forecast(116) =>
           forecast[116].farmer
               = RProd(<<forecast[113].farmer, Plus1(cfg.FARMER_GROWTH_110),
                         expected_factor_115, Plus1(cfg.FARMER_GROWTH_110),
                         cfg.DROUGHT_RECOVERY_BOOST, resistance_factor(116)>>)

\* 114, 115 and 116 are recorded with three different resistance factors and
\* a farmer income that is not zero.
C28_Witness ==
    /\ Forecast(116) /\ forecast[113].farmer # Zero
    /\ resistance_factor(114) # One /\ resistance_factor(115) # One
    /\ resistance_factor(114) # resistance_factor(115)
    /\ resistance_factor(115) # resistance_factor(116)


\* The rows the first loop has read.
IncomeRowsRead ==
    IF pc = "load_profession_income" THEN SubSeq(reader.rows, 1, reader.line - 1)
    ELSE reader.rows

\* The rows of a year, and those of one profession of the year.
RowsOfYear(rows, yr) == SelectSeq(rows, LAMBDA row : int(row.year) = yr)
RowsOf(rows, yr, prof) ==
    SelectSeq(rows, LAMBDA row : int(row.year) = yr /\ row.profession = prof)

\* The sum of the incomes of a sequence of rows.
IncomeSum(rows) == RSum([i \in 1..Len(rows) |-> RInt(float(rows[i].income))])

\* workforce[yr][prof] and population[yr], read without inserting a key.
headcount(yr, prof) == DefaultGet(DefaultGet(tbl.workforce, yr, Empty), prof, 0)
population_count(yr) == DefaultGet(tbl.population, yr, 0)

\* prof in profession_income[yr]
HasIncomeEntry(yr, prof) ==
    yr \in DOMAIN tbl.profession_income /\ prof \in DOMAIN tbl.profession_income[yr]

RECURSIVE HeadcountSum(_, _)
HeadcountSum(yr, profs) ==
    IF profs = {} THEN 0
    ELSE LET prof == CHOOSE p \in profs : TRUE
         IN  headcount(yr, prof) + HeadcountSum(yr, profs \ {prof})

\* The population of every year is the sum of its professions' headcounts,
\* one per row of the year read by the second loop.
HeadcountsAddUpToPopulation ==
    \A yr \in LoadedYears :
        /\ population_count(yr) = HeadcountSum(yr, ProfessionTexts)
        /\ population_count(yr) = Len(RowsOfYear(RowsRead, yr))
        /\ \A prof \in ProfessionTexts : headcount(yr, prof) = Len(RowsOf(RowsRead, yr, prof))

\* Every income entry is the sum of the incomes of the rows of its year and
\* profession read by the first loop.
IncomeEntriesAreRowSums ==
    \A yr \in LoadedYears : \A prof \in ProfessionTexts :
        HasIncomeEntry(yr, prof) =>
            tbl.profession_income[yr][prof] = IncomeSum(RowsOf(IncomeRowsRead, yr, prof))

\* A profession has an income entry for a year exactly when it has a
\* headcount of at least 1 for the year.
IncomeEntryIffCounted ==
    \A yr \in LoadedYears : \A prof \in ProfessionTexts :
        HasIncomeEntry(yr, prof) <=> headcount(yr, prof) >= 1

\* C29 as stated: after every row read, the headcounts of every year add up to
\* its population, every income entry is the sum of its rows' incomes, and a
\* profession has an income entry exactly when its headcount is at least 1.
C29_TablesAgreeAfterEveryRow ==
    /\ HeadcountsAddUpToPopulation
    /\ IncomeEntriesAreRowSums
    /\ IncomeEntryIffCounted

\* C29: after every row read, the headcounts of every year add up to its
\* population and count the rows the second loop has read, and every income
\* entry is the sum of the incomes of the rows the first loop has read; once
\* both loops have read the whole file, a profession has an income entry for a
\* year exactly when its headcount for the year is at least 1.
C29_TablesAgreeOnceBothLoopsFinished ==
    /\ HeadcountsAddUpToPopulation
    /\ IncomeEntriesAreRowSums
    /\ pc = "loaded" => IncomeEntryIffCounted

\* A loaded file of three rows: both professions in one year, with two rows
\* of one of them, and no row of the other year.
C29_Witness ==
    /\ pc = "loaded" /\ Len(reader.rows) = 3
    /\ \E yr \in LoadedYears :
           /\ population_count(yr) = 3
           /\ \E prof \in ProfessionTexts :
                  /\ headcount(yr, prof) = 2
                  /\ tbl.profession_income[yr][prof] # Zero
           /\ \A prof \in ProfessionTexts : HasIncomeEntry(yr, prof)
           /\ \E other \in LoadedYears \ {yr} :
                  \A prof \in ProfessionTexts : ~HasIncomeEntry(other, prof)

\* The strictly positive entries of a list, in order.
RECURSIVE PositiveEntries(_)
PositiveEntries(s) ==
    IF s = <<>> THEN <<>>
    ELSE IF Head(s) > 0 THEN <<Head(s)>> \o PositiveEntries(Tail(s))
    ELSE PositiveEntries(Tail(s))

\* C30: calculate_gini ignores the entries of its input that are not above 0:
\* on every list it returns what it returns on the sub-list of strictly
\* positive entries (the discrete estimator of that sub-list, or 0 when the
\* sub-list is empty), and a non-empty list with no strictly positive entry
\* returns 0 and no division by zero.
C30_GiniIgnoresNonPositiveEntries ==
    Returned =>
        LET pos == PositiveEntries(incomes)
        IN  /\ gini = calculate_gini(pos)
            /\ ~IsRaised(gini)
            /\ pos # <<>> => IsDiscreteEstimator(gini, pos)
            /\ pos = <<>> => gini = Zero

\* The call has returned on a list that mixes a negative entry, a zero and
\* two positive entries of different size.
C30_Witness ==
    /\ Returned
    /\ Len(incomes) = 4 /\ Len(PositiveEntries(incomes)) = 2
    /\ \E i, j \in 1..4 : incomes[i] < 0 /\ incomes[j] = 0
    /\ gini # Zero
====
